---------------------------- MODULE Spec2Model ----------------------------
(***************************************************************************)
(* DeeBee: renaming of movie / TV media files after a metadata lookup.     *)
(*                                                                         *)
(* The repository holds three directory orchestrators:                     *)
(*   "renamer"  deebee/renamer.py       MovieRenamer   (used by cli.py)    *)
(*   "common"   deebee/rename_common.py BaseRenamer    (movie_renamer.py,  *)
(*                                                      tv_renamer.py)     *)
(*   "gui"      deebee/gui.py           GUIMovieRenamer                    *)
(* and two candidate classes, MovieCandidate (renamer.py) and              *)
(* MediaCandidate (rename_common.py).  All of them are modelled; the       *)
(* variable impl says which one a behaviour runs.                          *)
(*                                                                         *)
(* File names are TLA+ strings; all paths of a run live in one directory,  *)
(* so a path is modelled by its name (Path.with_name keeps the parent).    *)
(***************************************************************************)
EXTENDS Integers, Sequences, FiniteSets, TLC

VARIABLES
    impl,            \* which orchestrator / candidate class the object is
    mode,            \* "movie" | "tv": media_mode / the subclass of BaseRenamer
    format_key,      \* key of self._format_spec
    imdb_client_set, \* whether the object has an attribute _imdb_client (gui.py:60)
    disk,            \* names of the regular files in the directory
    disk_before,     \* disk when the current process_directory call started
    pc,              \* position of process_directory
    error,           \* the exception that left process_directory, "" if none
    dry_run,         \* argument of the current call
    run,             \* number of process_directory calls started
    movie_files,     \* the listing captured at the start of the call
    idx,             \* index in movie_files of the file being processed
    search_info,     \* MediaSearchQuery of the current file
    results,         \* search results of the current file
    retries,         \* rejected inputs of the current prompt
    candidate,       \* candidate built for the current file
    target,          \* [path, adjusted] of the current file's rename
    selected,        \* selected_candidates
    stop_requested,  \* GUIMovieRenamer._stop_requested
    console,         \* lines handed to console.print / the GUI log callback
    fs_calls,        \* Path.rename invocations of the current call
    history,         \* per file of the current call: what the collaborators answered
    probe,           \* result of a pure function applied to a drawn input
    args,            \* arguments of the function or constructor call under study
    search_limit,    \* argument of the current call
    steps            \* steps of the current call, in the order they were taken

vars == <<impl, mode, format_key, imdb_client_set, disk, disk_before, pc, error,
          dry_run, run, movie_files, idx, search_info, results, retries,
          candidate, target, selected, stop_requested, console, fs_calls,
          history, probe, args, search_limit, steps>>

----------------------------------------------------------------------------
(* Bounds of the model.                                                    *)

\* most files in the directory when a behaviour starts
MaxFiles == 2
\* most process_directory calls in one behaviour
MaxRuns == 2
\* most rejected inputs at one prompt
MaxRetries == 1

\* Optional[int] = None
None == 0 - 1

----------------------------------------------------------------------------
(* Strings.                                                                *)

Ch(s, i) == SubSeq(s, i, i)

UpperLetters == "ABCDEFGHIJKLMNOPQRSTUVWXYZ"
LowerLetters == "abcdefghijklmnopqrstuvwxyz"
DigitChars == "0123456789"

\* the characters of a string, as a set
CharsOf(s) == {Ch(s, i) : i \in 1..Len(s)}

UpperSet == CharsOf(UpperLetters)
LowerSet == CharsOf(LowerLetters)
DigitSet == CharsOf(DigitChars)

IsUpper(c) == c \in UpperSet
IsLower(c) == c \in LowerSet
IsDigit(c) == c \in DigitSet
DigitVal(c) == (CHOOSE i \in 1..10 : Ch(DigitChars, i) = c) - 1

\* str.lower / str.casefold on the ASCII letters
LowerCh(c) ==
    IF IsUpper(c) THEN Ch(LowerLetters, CHOOSE i \in 1..26 : Ch(UpperLetters, i) = c)
    ELSE c

RECURSIVE Lower(_)
Lower(s) == IF s = "" THEN "" ELSE LowerCh(Ch(s, 1)) \o Lower(Tail(s))

\* \s of the regular expressions, on the characters the model uses
IsSpace(c) == c \in {" ", "\t"}

\* \w of the regular expressions
IsWord(c) == IsUpper(c) \/ IsLower(c) \/ IsDigit(c) \/ c = "_"

\* s in t (Python substring test)
Contains(t, s) ==
    \E i \in 1..(Len(t) - Len(s) + 1) : SubSeq(t, i, i + Len(s) - 1) = s

\* number of positions of t at which s occurs
Occurrences(t, s) ==
    Cardinality({i \in 1..(Len(t) - Len(s) + 1) : SubSeq(t, i, i + Len(s) - 1) = s})

StartsWith(t, s) == Len(s) <= Len(t) /\ SubSeq(t, 1, Len(s)) = s
EndsWith(t, s) == Len(s) <= Len(t) /\ SubSeq(t, Len(t) - Len(s) + 1, Len(t)) = s

\* str(n) for n >= 0
RECURSIVE ToStr(_)
ToStr(n) ==
    IF n < 10 THEN Ch(DigitChars, n + 1)
    ELSE ToStr(n \div 10) \o Ch(DigitChars, (n % 10) + 1)

\* mutation of Pad2: the number is not padded
Pad2_plain(n) == ToStr(n)

\* f"{n:02d}" for n >= 0
Pad2(n) == IF n < 10 THEN "0" \o ToStr(n) ELSE ToStr(n)

\* int(s) for a non-empty string of digits
RECURSIVE ToInt(_)
ToInt(s) ==
    IF s = "" THEN 0
    ELSE 10 * ToInt(SubSeq(s, 1, Len(s) - 1)) + DigitVal(Ch(s, Len(s)))

\* str.strip(): leading and trailing whitespace removed
RECURSIVE LStrip(_)
LStrip(s) == IF s # "" /\ IsSpace(Ch(s, 1)) THEN LStrip(Tail(s)) ELSE s

RECURSIVE RStrip(_)
RStrip(s) ==
    IF s # "" /\ IsSpace(Ch(s, Len(s))) THEN RStrip(SubSeq(s, 1, Len(s) - 1)) ELSE s

Strip(s) == LStrip(RStrip(s))

\* mutation of CollapseSpaces: the runs are kept
CollapseSpaces_kept(s) == s

\* re.sub(r"\s+", " ", s)
RECURSIVE CollapseSpaces(_)
CollapseSpaces(s) ==
    IF s = "" THEN ""
    ELSE IF IsSpace(Ch(s, 1)) THEN " " \o CollapseSpaces(LStrip(s))
    ELSE Ch(s, 1) \o CollapseSpaces(Tail(s))

\* a character of the class [A-Za-z0-9_.\- ]
IsFilenameChar(c) == IsWord(c) \/ c \in {".", "-", " "}

RECURSIVE DropInvalid(_)
DropInvalid(s) ==
    IF s # "" /\ ~IsFilenameChar(Ch(s, 1)) THEN DropInvalid(Tail(s)) ELSE s

\* INVALID_FILENAME_CHARS.sub(repl, s): every maximal run of characters outside
\* the class is replaced by repl
RECURSIVE INVALID_FILENAME_CHARS_sub(_, _)
INVALID_FILENAME_CHARS_sub(repl, s) ==
    IF s = "" THEN ""
    ELSE IF IsFilenameChar(Ch(s, 1))
         THEN Ch(s, 1) \o INVALID_FILENAME_CHARS_sub(repl, Tail(s))
         ELSE repl \o INVALID_FILENAME_CHARS_sub(repl, DropInvalid(s))

----------------------------------------------------------------------------
(* pathlib: name, stem, suffix of a path in the directory.                 *)

\* str.rfind("."), 1-based; 0 when there is no dot
LastDot(name) ==
    IF \E i \in 1..Len(name) : Ch(name, i) = "."
    THEN CHOOSE i \in 1..Len(name) :
            Ch(name, i) = "." /\ \A j \in (i + 1)..Len(name) : Ch(name, j) # "."
    ELSE 0

\* whether the dot at position i starts a suffix: it is neither the first
\* nor the last character of the name
SplitsAt(name, i) == 1 < i /\ i < Len(name)

\* PurePath.suffix: from the last dot on
SuffixFrom(name, i) == IF SplitsAt(name, i) THEN SubSeq(name, i, Len(name)) ELSE ""

PathSuffix(name) == SuffixFrom(name, LastDot(name))

\* PurePath.stem: up to the last dot
StemUpTo(name, i) == IF SplitsAt(name, i) THEN SubSeq(name, 1, i - 1) ELSE name

PathStem(name) == StemUpTo(name, LastDot(name))

----------------------------------------------------------------------------
(* Rename formats.  A context is a record                                  *)
(*   [series_title, episode_title, year, season_number, episode_number];   *)
(* episode_title and year are "" when absent: every use in the source is   *)
(* a truth test, which None and "" fail alike.                             *)

Marker(season, episode) == "S" \o Pad2(season) \o "E" \o Pad2(episode)

HasNumbers(context) ==
    context.season_number # None /\ context.episode_number # None

format_show_episode_with_numbers(context) ==
    context.series_title
      \o (IF context.series_title # "" /\ context.episode_title # "" THEN " - " ELSE "")
      \o context.episode_title
      \o (IF HasNumbers(context)
          THEN (IF context.series_title # "" \/ context.episode_title # ""
                THEN " - " ELSE "")
               \o Marker(context.season_number, context.episode_number)
          ELSE "")

format_show_with_numbers(context) ==
    context.series_title
      \o (IF HasNumbers(context)
          THEN " - " \o Marker(context.season_number, context.episode_number)
          ELSE "")

format_show_episode(context) ==
    IF context.episode_title # ""
    THEN context.series_title \o " - " \o context.episode_title
    ELSE context.series_title

format_show_only(context) == context.series_title

format_movie_title_with_year(context) ==
    IF context.year # ""
    THEN context.series_title \o " (" \o context.year \o ")"
    ELSE context.series_title

format_movie_title(context) == context.series_title

MOVIE_RENAME_FORMATS == {"movie_title", "movie_title_year"}
TV_RENAME_FORMATS ==
    {"show_episode_numbers", "show_numbers", "show_episode", "show_only"}
AVAILABLE_RENAME_FORMATS == MOVIE_RENAME_FORMATS \cup TV_RENAME_FORMATS

DEFAULT_RENAME_FORMAT_KEY == "movie_title"
DEFAULT_TV_RENAME_FORMAT_KEY == "show_episode_numbers"

\* spec.builder(context) of the format registered under key
builder(key, context) ==
    CASE key = "movie_title" -> format_movie_title(context)
      [] key = "movie_title_year" -> format_movie_title_with_year(context)
      [] key = "show_episode_numbers" -> format_show_episode_with_numbers(context)
      [] key = "show_numbers" -> format_show_with_numbers(context)
      [] key = "show_episode" -> format_show_episode(context)
      [] key = "show_only" -> format_show_only(context)

\* `name or context.series_title`
OrTitle(name, context) == IF name # "" THEN name ELSE context.series_title

\* RenameFormatSpec.build_name
build_name(key, context) ==
    OrTitle(Strip(CollapseSpaces(builder(key, context))), context)

sanitize_title(title) ==
    Strip(CollapseSpaces(INVALID_FILENAME_CHARS_sub("", title)))

\* the RenameContext both candidate classes build from their fields
Context(cand) ==
    [series_title |-> sanitize_title(cand.metadata.title),
     episode_title |-> IF cand.metadata.episode_title # ""
                       THEN sanitize_title(cand.metadata.episode_title) ELSE "",
     year |-> cand.metadata.year,
     season_number |-> cand.season_number,
     episode_number |-> cand.episode_number]

----------------------------------------------------------------------------
(* Format resolution and the constructors.  The outcome of a resolution    *)
(* or of a construction is a record [error, mode, key]; error is "" when   *)
(* it succeeded and names the ValueError that was raised otherwise:        *)
(*   "unknown_format"  Unknown rename format '<key>'. Available: ...       *)
(*   "mode_mismatch"   Rename format '<key>' is not valid for <mode> mode. *)
(*   "invalid_mode"    media_mode must be either 'movie' or 'tv'.          *)

\* rename_format = None
NoFormat == ""

Built(m, key) == [error |-> "", mode |-> m, key |-> key]
Raised(why) == [error |-> why, mode |-> "", key |-> ""]

\* RenameFormatSpec.modes of the format registered under key in renamer.py
modes(key) == IF key \in MOVIE_RENAME_FORMATS THEN {"movie"} ELSE {"tv"}

\* mutation of supports_mode: every format is taken for every mode
supports_mode_any(key, m) == TRUE

\* renamer.py: RenameFormatSpec.supports_mode
supports_mode(key, m) == Lower(m) \in modes(key)

\* renamer.py: MovieRenamer._resolve_format(key, mode), as __init__ calls it
MovieRenamer_resolve_format(key, m) ==
    IF key \notin AVAILABLE_RENAME_FORMATS THEN Raised("unknown_format")
    ELSE IF ~supports_mode(key, m) THEN Raised("mode_mismatch")
    ELSE Built(m, key)

\* mutation of DefaultKey: the movie default is used in both modes
DefaultKey_movie(m) == DEFAULT_RENAME_FORMAT_KEY

\* the key __init__ takes when rename_format is None
DefaultKey(m) ==
    IF m = "tv" THEN DEFAULT_TV_RENAME_FORMAT_KEY ELSE DEFAULT_RENAME_FORMAT_KEY

\* `if rename_format is None: rename_format = ...`
OrDefault(rename_format, m) ==
    IF rename_format = NoFormat THEN DefaultKey(m) ELSE rename_format

\* renamer.py: MovieRenamer.__init__ from self._media_mode on
MovieRenamer_init_mode(rename_format, m) ==
    IF m \notin {"movie", "tv"} THEN Raised("invalid_mode")
    ELSE MovieRenamer_resolve_format(OrDefault(rename_format, m), m)

\* renamer.py: MovieRenamer(client, rename_format=..., media_mode=...)
MovieRenamer_init(rename_format, media_mode) ==
    MovieRenamer_init_mode(rename_format, Lower(media_mode))

\* RENAME_FORMATS of the subclass of BaseRenamer for mode m:
\* movie_renamer.MovieRenamer or tv_renamer.TVRenamer
RENAME_FORMATS(m) == IF m = "tv" THEN TV_RENAME_FORMATS ELSE MOVIE_RENAME_FORMATS

\* rename_common.py: BaseRenamer._resolve_format(key) of the subclass for m
BaseRenamer_resolve_format(key, m) ==
    IF key \notin RENAME_FORMATS(m) THEN Raised("unknown_format") ELSE Built(m, key)

\* rename_common.py: BaseRenamer.__init__ of the subclass for mode m; the
\* defaults of the two subclasses are those of renamer.py
BaseRenamer_init(rename_format, m) ==
    BaseRenamer_resolve_format(OrDefault(rename_format, m), m)

\* gui.py: GUIMovieRenamer.__init__: media_mode is left at its default
GUIMovieRenamer_init(rename_format) == MovieRenamer_init(rename_format, "movie")

\* the constructor of the orchestrator class im
init(im, rename_format, media_mode) ==
    CASE im = "renamer" -> MovieRenamer_init(rename_format, media_mode)
      [] im = "common" -> BaseRenamer_init(rename_format, media_mode)
      [] im = "gui" -> GUIMovieRenamer_init(rename_format)

----------------------------------------------------------------------------
(* The filename parser: _prepare_search and its helpers.  A regular        *)
(* expression is matched stage by stage; every quantifier of the three     *)
(* patterns can only succeed on the whole run it stands before (a shorter  *)
(* run leaves a character that the next stage rejects), so a match at a    *)
(* position, when there is one, is unique.  A match is a record            *)
(*   [found, start, end, season, episode]                                  *)
(* where start is its first position and end the first position after it.  *)

SepChars == {" ", ".", "_", "-"}

\* length of the longest run of digits of s that starts at position i
RECURSIVE DigitRun(_, _)
DigitRun(s, i) ==
    IF i <= Len(s) /\ IsDigit(Ch(s, i)) THEN 1 + DigitRun(s, i + 1) ELSE 0

\* length of the longest run of [ ._-] of s that starts at position i
RECURSIVE SepRun(_, _)
SepRun(s, i) ==
    IF i <= Len(s) /\ Ch(s, i) \in SepChars THEN 1 + SepRun(s, i + 1) ELSE 0

\* first position at or after i that is not in a run of [ ._-]
SkipSeps(s, i) == i + SepRun(s, i)

\* \b between positions i-1 and i of s
WordBoundary(s, i) ==
    (i > 1 /\ i - 1 <= Len(s) /\ IsWord(Ch(s, i - 1)))
        # (i >= 1 /\ i <= Len(s) /\ IsWord(Ch(s, i)))

NoMatch == [found |-> FALSE, start |-> 0, end |-> 0, season |-> "", episode |-> ""]

\* the tail shared by the three patterns: (?P<episode>\d{1,3})\b with the
\* episode digits at b, after a season of d1 digits at a
EpisodeDigits(s, i, a, d1, b, d2) ==
    IF d1 \in 1..3 /\ d2 \in 1..3 /\ WordBoundary(s, b + d2)
    THEN [found |-> TRUE, start |-> i, end |-> b + d2,
          season |-> SubSeq(s, a, a + d1 - 1),
          episode |-> SubSeq(s, b, b + d2 - 1)]
    ELSE NoMatch

\* a literal letter of a pattern under (?i)
LetterAt(s, i, letter) == i <= Len(s) /\ LowerCh(Ch(s, i)) = letter

\* (?i)\bS(?P<season>\d{1,3})[ ._-]*E(?P<episode>\d{1,3})\b
SxxEyy_E(s, i, d1, e) ==
    IF LetterAt(s, e, "e")
    THEN EpisodeDigits(s, i, i + 1, d1, e + 1, DigitRun(s, e + 1))
    ELSE NoMatch

SxxEyy_Season(s, i, d1) == SxxEyy_E(s, i, d1, SkipSeps(s, i + 1 + d1))

MatchSxxEyyAt(s, i) ==
    IF LetterAt(s, i, "s") /\ WordBoundary(s, i)
    THEN SxxEyy_Season(s, i, DigitRun(s, i + 1))
    ELSE NoMatch

\* (?i)\b(?P<season>\d{1,3})x(?P<episode>\d{1,3})\b
NxN_Season(s, i, d1) ==
    IF LetterAt(s, i + d1, "x")
    THEN EpisodeDigits(s, i, i, d1, i + d1 + 1, DigitRun(s, i + d1 + 1))
    ELSE NoMatch

MatchNxNAt(s, i) ==
    IF WordBoundary(s, i) THEN NxN_Season(s, i, DigitRun(s, i)) ELSE NoMatch

\* (?i)\bseason[ ._-]*(?P<season>\d{1,3})[ ._-]*(?:episode|ep)[ ._-]*(?P<episode>\d{1,3})\b
Season_Episode(s, i, a, d1, b) == EpisodeDigits(s, i, a, d1, b, DigitRun(s, b))

\* (?:episode|ep) at w: "episode" is tried first; when the text is "episode"
\* the alternative "ep" leaves "isode" where a digit must follow
Season_Word(s, i, a, d1, w) ==
    IF w + 6 <= Len(s) /\ Lower(SubSeq(s, w, w + 6)) = "episode"
    THEN Season_Episode(s, i, a, d1, SkipSeps(s, w + 7))
    ELSE IF w + 1 <= Len(s) /\ Lower(SubSeq(s, w, w + 1)) = "ep"
    THEN Season_Episode(s, i, a, d1, SkipSeps(s, w + 2))
    ELSE NoMatch

Season_Digits(s, i, a, d1) == Season_Word(s, i, a, d1, SkipSeps(s, a + d1))

Season_Number(s, i, a) == Season_Digits(s, i, a, DigitRun(s, a))

MatchSeasonEpisodeAt(s, i) ==
    IF i + 5 <= Len(s) /\ Lower(SubSeq(s, i, i + 5)) = "season" /\ WordBoundary(s, i)
    THEN Season_Number(s, i, SkipSeps(s, i + 6))
    ELSE NoMatch

\* mutation of PatternAt: the first two patterns have changed places
PatternAt_reordered(p, s, i) ==
    CASE p = 1 -> MatchNxNAt(s, i)
      [] p = 2 -> MatchSxxEyyAt(s, i)
      [] p = 3 -> MatchSeasonEpisodeAt(s, i)

\* SEASON_EPISODE_PATTERNS[p - 1] matched at position i
PatternAt(p, s, i) ==
    CASE p = 1 -> MatchSxxEyyAt(s, i)
      [] p = 2 -> MatchNxNAt(s, i)
      [] p = 3 -> MatchSeasonEpisodeAt(s, i)

\* pattern.search(s): the match at the leftmost position, scanning from i
RECURSIVE SearchFrom(_, _, _)
RECURSIVE SearchOr(_, _, _, _)
SearchOr(p, s, i, m) == IF m.found THEN m ELSE SearchFrom(p, s, i + 1)

SearchFrom(p, s, i) ==
    IF i > Len(s) THEN NoMatch ELSE SearchOr(p, s, i, PatternAt(p, s, i))

PatternSearch(p, s) == SearchFrom(p, s, 1)

\* `for pattern in SEASON_EPISODE_PATTERNS: ... if match: ... break`
RECURSIVE PatternsFrom(_, _)
RECURSIVE PatternsOr(_, _, _)
PatternsOr(p, s, m) == IF m.found THEN m ELSE PatternsFrom(p + 1, s)

PatternsFrom(p, s) ==
    IF p > 3 THEN NoMatch ELSE PatternsOr(p, s, PatternSearch(p, s))

FirstPatternMatch(s) == PatternsFrom(1, s)

\* re.sub(r"[\s._-]+$", "", s)
RECURSIVE StripTrailingSeparators(_)
StripTrailingSeparators(s) ==
    IF s # "" /\ (Ch(s, Len(s)) \in SepChars \/ IsSpace(Ch(s, Len(s))))
    THEN StripTrailingSeparators(SubSeq(s, 1, Len(s) - 1))
    ELSE s

\* str.replace(old, new) for a one-character old
RECURSIVE Replace(_, _, _)
Replace(s, old, new) ==
    IF s = "" THEN ""
    ELSE (IF Ch(s, 1) = old THEN new ELSE Ch(s, 1)) \o Replace(Tail(s), old, new)

\* length of the first whitespace-free run of s
RECURSIVE TokenLen(_)
TokenLen(s) == IF s # "" /\ ~IsSpace(Ch(s, 1)) THEN 1 + TokenLen(Tail(s)) ELSE 0

\* str.split(): the whitespace-separated tokens of s
RECURSIVE Split(_)
RECURSIVE SplitAt(_, _)
SplitAt(t, n) ==
    IF t = "" THEN <<>> ELSE <<SubSeq(t, 1, n)>> \o Split(SubSeq(t, n + 1, Len(t)))

Split(s) == SplitAt(LStrip(s), TokenLen(LStrip(s)))

\* " ".join(tokens)
RECURSIVE Join(_)
Join(tokens) ==
    IF tokens = <<>> THEN ""
    ELSE IF Len(tokens) = 1 THEN tokens[1]
    ELSE tokens[1] \o " " \o Join(Tail(tokens))

RELEASE_METADATA_TOKENS ==
    {"480p", "720p", "1080p", "2160p", "webdl", "webrip", "web", "hdtv", "hdrip",
     "bluray", "brrip", "dvdrip", "hdr", "x264", "x265", "h264", "h265", "hevc",
     "proper", "repack", "extended", "unrated", "remux", "aac", "ac3", "dts",
     "ddp", "atmos"}

\* str.isdigit() on the characters the model uses
IsDigitString(s) == s # "" /\ \A i \in 1..Len(s) : IsDigit(Ch(s, i))

\* the three tests of the loop body of _strip_trailing_release_tokens on
\* normalized = token.casefold().replace("-", "")
IsNormalizedReleaseToken(normalized) ==
    \/ /\ Len(normalized) \in {4, 5}
       /\ IsDigitString(SubSeq(normalized, 1, Len(normalized) - 1))
       /\ Ch(normalized, Len(normalized)) = "p"
    \/ /\ StartsWith(normalized, "ddp")
       /\ IsDigitString(Replace(SubSeq(normalized, 4, Len(normalized)), ".", ""))
    \/ normalized \in RELEASE_METADATA_TOKENS

IsReleaseToken(token) == IsNormalizedReleaseToken(Replace(Lower(token), "-", ""))

\* mutation of PopReleaseTokens: one token is popped and the loop is left
PopReleaseTokens_once(tokens) ==
    IF tokens # <<>> /\ IsReleaseToken(tokens[Len(tokens)])
    THEN SubSeq(tokens, 1, Len(tokens) - 1)
    ELSE tokens

\* `while tokens: ... tokens.pop() ... break`
RECURSIVE PopReleaseTokens(_)
PopReleaseTokens(tokens) ==
    IF tokens # <<>> /\ IsReleaseToken(tokens[Len(tokens)])
    THEN PopReleaseTokens(SubSeq(tokens, 1, Len(tokens) - 1))
    ELSE tokens

strip_trailing_release_tokens(value) == Join(PopReleaseTokens(Split(value)))

\* \b(19|20)\d{2}\b at position i of s
YearTokenAt(s, i) ==
    /\ i + 3 <= Len(s)
    /\ SubSeq(s, i, i + 1) \in {"19", "20"}
    /\ IsDigit(Ch(s, i + 2)) /\ IsDigit(Ch(s, i + 3))
    /\ WordBoundary(s, i)
    /\ WordBoundary(s, i + 4)

\* YEAR_TOKEN_PATTERN.sub(" ", s), scanning from position i
RECURSIVE YearSubFrom(_, _)
YearSubFrom(s, i) ==
    IF i > Len(s) THEN ""
    ELSE IF YearTokenAt(s, i) THEN " " \o YearSubFrom(s, i + 4)
    ELSE Ch(s, i) \o YearSubFrom(s, i + 1)

YEAR_TOKEN_PATTERN_sub(s) == YearSubFrom(s, 1)

\* base after the pattern loop: the matched span cut out and the separators
\* at the end of the string removed
CutMatch(stem, m) ==
    IF m.found
    THEN StripTrailingSeparators(
             SubSeq(stem, 1, m.start - 1) \o SubSeq(stem, m.end, Len(stem)))
    ELSE stem

\* the normalisation of base up to _strip_trailing_release_tokens
Normalize(base) ==
    strip_trailing_release_tokens(
        CollapseSpaces(INVALID_FILENAME_CHARS_sub(" ", Replace(base, ".", " "))))

\* mutation of WithoutYears: the year tokens go in every case
WithoutYears_always(base, numbered) == CollapseSpaces(YEAR_TOKEN_PATTERN_sub(base))

\* the year tokens go when a season or an episode number was found
WithoutYears(base, numbered) ==
    IF numbered THEN CollapseSpaces(YEAR_TOKEN_PATTERN_sub(base)) ELSE base

\* the MediaSearchQuery built from the match m of the pattern loop
SearchQueryOf(stem, m) ==
    [query |-> Strip(WithoutYears(Normalize(CutMatch(stem, m)), m.found)),
     season_number |-> IF m.found THEN ToInt(m.season) ELSE None,
     episode_number |-> IF m.found THEN ToInt(m.episode) ELSE None]

\* MovieRenamer._prepare_search / BaseRenamer._prepare_search on path.stem
prepare_search(stem) == SearchQueryOf(stem, FirstPatternMatch(stem))

guess_search_query(stem) == prepare_search(stem).query

----------------------------------------------------------------------------
(* Candidates.  A candidate is a record                                    *)
(*   [original_path, metadata, format_key, season_number, episode_number]. *)

\* mutation of EnsureMarker: the marker is appended without looking
EnsureMarker_always(filename, marker) == filename \o " " \o marker

\* `if f"S..E.." not in filename: filename = f"{filename} S..E.."`
EnsureMarker(filename, marker) ==
    IF Contains(filename, marker) THEN filename ELSE filename \o " " \o marker

\* the marker rule of MovieCandidate.proposed_filename
WithMarker(filename, cand) ==
    IF cand.season_number # None /\ cand.episode_number # None
    THEN EnsureMarker(filename, Marker(cand.season_number, cand.episode_number))
    ELSE filename

\* renamer.py: MovieCandidate.proposed_filename
MovieCandidate_proposed_filename(cand) ==
    WithMarker(build_name(cand.format_key, Context(cand)), cand)
        \o PathSuffix(cand.original_path)

\* rename_common.py: MediaCandidate.proposed_filename
MediaCandidate_proposed_filename(cand) ==
    build_name(cand.format_key, Context(cand)) \o PathSuffix(cand.original_path)

----------------------------------------------------------------------------
(* The directory and the collaborators.                                    *)

\* the characters of the file names of the model, in code point order
CodePoints ==
    " !#$%&'()*+,-./0123456789:;<=>?@ABCDEFGHIJKLMNOPQRSTUVWXYZ[]^_abcdefghijklmnopqrstuvwxyz{|}~"

\* the rank of each character in that order
OrdOf == [c \in CharsOf(CodePoints) |-> CHOOSE i \in 1..Len(CodePoints) : Ch(CodePoints, i) = c]

Ord(c) == OrdOf[c]

\* a < b for two names of one directory (Path.__lt__ compares the parts)
RECURSIVE Less(_, _)
Less(a, b) ==
    IF a = "" THEN b # ""
    ELSE IF b = "" THEN FALSE
    ELSE IF Ch(a, 1) = Ch(b, 1) THEN Less(Tail(a), Tail(b))
    ELSE Ord(Ch(a, 1)) < Ord(Ch(b, 1))

\* sorted(S)
RECURSIVE Sorted(_)
RECURSIVE SortedFrom(_, _)
SortedFrom(S, least) == <<least>> \o Sorted(S \ {least})

Sorted(S) ==
    IF S = {} THEN <<>>
    ELSE SortedFrom(S, CHOOSE x \in S : \A y \in S \ {x} : Less(x, y))

MEDIA_EXTENSIONS == {".mp4", ".mkv", ".avi"}

\* mutation of discover_media_files: the suffix is compared as it is spelt
discover_media_files_exact(files) ==
    Sorted({p \in files : PathSuffix(p) \in MEDIA_EXTENSIONS})

\* _discover_movie_files / _discover_media_files on a directory whose regular
\* files are `files`
discover_media_files(files) ==
    Sorted({p \in files : Lower(PathSuffix(p)) \in MEDIA_EXTENSIONS})

\* the names a directory can hold when a behaviour starts
FileUniverse ==
    {"The.Matrix.1999.mkv", "The Matrix.mkv", "The Matrix (1).mkv",
     "The.Expanse.S02E03.1080p.MKV"}

Directories == {d \in SUBSET FileUniverse : Cardinality(d) <= MaxFiles}

\* what the search collaborator can return
TheMatrix == [title |-> "The Matrix", year |-> "1999", episode_title |-> ""]
TheExpanse == [title |-> "The Expanse", year |-> "", episode_title |-> "Static"]
ResultLists == {<<>>, <<TheMatrix, TheExpanse>>}

\* the result limits a caller passes: one result, and the default of the
\* parameter
SearchLimits == {1, 10}

\* no call with arguments is under study
NoArgs == [kind |-> "none"]

\* what can be typed at the console prompt
ConsoleInputs == {"0", "1", "2", "3", "x"}
\* what the dialog can be closed with: Select on the row of that number ("" when
\* no row is selected), Skip, Stop
DialogInputs == {"1", "2", "", "skip", "stop"}

\* the renamer objects that construction accepts
Renamers ==
    [impl : {"renamer", "common"}, mode : {"movie"}, format_key : MOVIE_RENAME_FORMATS,
     imdb_client_set : {FALSE}]
    \cup [impl : {"renamer", "common"}, mode : {"tv"}, format_key : TV_RENAME_FORMATS,
          imdb_client_set : {FALSE}]
    \cup [impl : {"gui"}, mode : {"movie"}, format_key : MOVIE_RENAME_FORMATS,
          imdb_client_set : BOOLEAN]

NoSearchInfo == [query |-> "", season_number |-> None, episode_number |-> None]
NoMetadata == [title |-> "", year |-> "", episode_title |-> ""]
NoCandidate ==
    [original_path |-> "", metadata |-> NoMetadata, format_key |-> "",
     season_number |-> None, episode_number |-> None]
NoTarget == [path |-> "", adjusted |-> FALSE]
NoProbe == [done |-> FALSE, name |-> "", path |-> "", adjusted |-> FALSE]

\* MovieCandidate(...) / MediaCandidate(...)
Candidate(path, chosen, key, season, episode) ==
    [original_path |-> path, metadata |-> chosen, format_key |-> key,
     season_number |-> season, episode_number |-> episode]

\* candidate.proposed_filename of the class the orchestrator im builds
proposed_filename(im, cand) ==
    IF im = "common" THEN MediaCandidate_proposed_filename(cand)
    ELSE MovieCandidate_proposed_filename(cand)

\* candidate.proposed_path: original_path.with_name(proposed_filename)
proposed_path(im, cand) == proposed_filename(im, cand)

----------------------------------------------------------------------------
(* The rename planner: _determine_target_path.                             *)

\* proposed_path.with_name(f"{stem} ({counter}){suffix}")
Alternative(path, counter) ==
    PathStem(path) \o " (" \o ToStr(counter) \o ")" \o PathSuffix(path)

\* mutation of NextCounter: a number is stepped over
NextCounter_skip(counter) == counter + 2

\* `counter += 1`
NextCounter(counter) == counter + 1

\* `while True: ... if not alternative.exists(): return alternative, True`
RECURSIVE ProbeAlternatives(_, _, _)
ProbeAlternatives(path, counter, files) ==
    IF Alternative(path, counter) \notin files
    THEN [path |-> Alternative(path, counter), adjusted |-> TRUE]
    ELSE ProbeAlternatives(path, NextCounter(counter), files)

\* from `if not proposed_path.exists()` on
ResolveCollision(proposed, files) ==
    IF proposed \notin files
    THEN [path |-> proposed, adjusted |-> FALSE]
    ELSE ProbeAlternatives(proposed, 1, files)

\* renamer.py: MovieRenamer._determine_target_path
MovieRenamer_determine_target_path(cand, files) ==
    ResolveCollision(proposed_path("renamer", cand), files)

\* `if proposed_path == candidate.original_path: return proposed_path, False`
UnlessOwnPath(proposed, cand, files) ==
    IF proposed = cand.original_path
    THEN [path |-> proposed, adjusted |-> FALSE]
    ELSE ResolveCollision(proposed, files)

\* rename_common.py: BaseRenamer._determine_target_path
BaseRenamer_determine_target_path(cand, files) ==
    UnlessOwnPath(proposed_path("common", cand), cand, files)

----------------------------------------------------------------------------
(* process_directory.  One call is a sequence of steps, one per blocking   *)
(* call to a collaborator: the search, the chooser, the filesystem rename. *)
(*   pc = "idle"      no call was made yet                                 *)
(*        "loop"      at the top of the loop body for movie_files[idx]     *)
(*        "prompt"    inside _prompt_for_choice, waiting for an input      *)
(*        "rename"    about to call Path.rename                            *)
(*        "returned"  the call returned selected                           *)
(*        "raised"    an exception left the call (error names it)          *)

config == <<impl, mode, format_key, imdb_client_set>>
call == <<disk_before, dry_run, run, movie_files, search_limit>>
file_vars == <<search_info, results, retries, candidate, target>>

CurrentFile == movie_files[idx]

\* a line given to console.print / self._log
Line(kind, file, name) == [kind |-> kind, file |-> file, name |-> name]

\* what the collaborators answered for the current file, and the candidate
\* built from a selection
Event(answer, cand) == [file |-> CurrentFile, answer |-> answer, candidate |-> cand]

\* a step of the loop body on the current file; a search step carries the
\* arguments the collaborator was called with
Step(kind) == [kind |-> kind, file |-> CurrentFile, query |-> "", limit |-> 0]

SearchStep(query, limit) ==
    [kind |-> "search", file |-> CurrentFile, query |-> query, limit |-> limit]

\* `search_info = self._prepare_search(file)`: the step, with the query it
\* resolved
ParseStep(info) ==
    [kind |-> "parse", file |-> CurrentFile, query |-> info.query, limit |-> 0]

\* mutation of LimitPassed: the default of the parameter is passed on
LimitPassed_default(limit) == 10

\* `limit=search_limit`
LimitPassed(limit) == limit

\* `search_info = self._prepare_search(file)` and the search that follows it;
\* a result that is not empty is handed to _prompt_for_choice
SearchSteps(info, res) ==
    <<ParseStep(info), SearchStep(info.query, LimitPassed(search_limit))>>
        \o (IF res = <<>> THEN <<>> ELSE <<Step("choose")>>)

\* `continue` or the end of the loop body: the next file of the listing, and
\* `return selected_candidates` after the last one
NextFile ==
    /\ idx' = idx + 1
    /\ pc' = IF idx < Len(movie_files) THEN "loop" ELSE "returned"
    /\ search_info' = NoSearchInfo
    /\ results' = <<>>
    /\ retries' = 0
    /\ candidate' = NoCandidate
    /\ target' = NoTarget

\* the first lines of GUIMovieRenamer.process_directory
Announce(listing) ==
    IF impl # "gui" THEN <<>>
    ELSE IF listing = <<>> THEN <<Line("no_files", "", "")>>
    ELSE <<Line("processing", "", "")>>

\* process_directory up to the loop, with the listing it captured
Started(dry, limit, listing) ==
    /\ run' = run + 1
    /\ dry_run' = dry
    /\ search_limit' = limit
    /\ steps' = <<>>
    /\ disk_before' = disk
    /\ movie_files' = listing
    /\ idx' = 1
    /\ pc' = IF listing = <<>> THEN "returned" ELSE "loop"
    /\ error' = ""
    /\ selected' = <<>>
    /\ stop_requested' = FALSE
    /\ console' = Announce(listing)
    /\ fs_calls' = <<>>
    /\ history' = <<>>
    /\ UNCHANGED <<config, disk, file_vars, probe, args>>

\* a call of process_directory(directory, dry_run=dry, search_limit=limit)
Start(dry, limit) ==
    /\ pc \in {"idle", "returned"}
    /\ run < MaxRuns
    /\ Started(dry, limit, discover_media_files(disk))

\* the console orchestrators from the search result on
Searched(info, res) ==
    /\ steps' = steps \o SearchSteps(info, res)
    /\ IF res = <<>>
       THEN /\ console' = Append(console, Line("no_matches", CurrentFile, ""))
            /\ history' = Append(history, Event("none", NoCandidate))
            /\ NextFile
       ELSE /\ console' = Append(console, Line("table", CurrentFile, ""))
            /\ search_info' = info
            /\ results' = res
            /\ pc' = "prompt"
            /\ UNCHANGED <<idx, retries, candidate, target, history>>
    /\ UNCHANGED <<config, call, disk, error, selected, stop_requested, fs_calls, probe, args>>

\* one round of `while True` in _prompt_for_choice: what an input leads to
Choice(input, matches) ==
    IF ~IsDigitString(input) THEN "invalid"
    ELSE IF ToInt(input) = 0 THEN "skip"
    ELSE IF ToInt(input) <= Len(matches) THEN "select"
    ELSE "out_of_range"

\* the input is rejected and asked for again
Rejected(why) ==
    /\ retries < MaxRetries
    /\ retries' = retries + 1
    /\ console' = Append(console, Line(why, CurrentFile, ""))
    /\ UNCHANGED <<config, call, disk, pc, error, idx, search_info, results,
                   candidate, target, selected, stop_requested, fs_calls,
                   history, probe, args, steps>>

\* `if chosen is None: continue`
Skipped ==
    /\ history' = Append(history, Event("skip", NoCandidate))
    /\ NextFile
    /\ UNCHANGED <<config, call, disk, error, selected, stop_requested, console,
                   fs_calls, probe, args, steps>>

\* mutation of SkipsRename: the dry-run test is lost
SkipsRename_never(dry) == FALSE

\* `if dry_run:` the branch that only reports
SkipsRename(dry) == dry

\* the console orchestrators from selected_candidates.append on
Report(cand, proposed, tgt) ==
    /\ steps' = Append(steps, Step("plan"))
    /\ selected' = Append(selected, cand)
    /\ history' = Append(history, Event("select", cand))
    /\ IF SkipsRename(dry_run)
       THEN /\ console' = console \o <<Line("dry_run", CurrentFile, tgt.path)>>
                \o (IF tgt.adjusted
                    THEN <<Line("note_exists", proposed, tgt.path)>> ELSE <<>>)
            /\ NextFile
       ELSE /\ console' = console
                \o (IF tgt.adjusted
                    THEN <<Line("adjusted", proposed, tgt.path)>> ELSE <<>>)
                \o <<Line("renaming", CurrentFile, tgt.path)>>
            /\ candidate' = cand
            /\ target' = tgt
            /\ pc' = "rename"
            /\ UNCHANGED <<idx, search_info, results, retries>>
    /\ UNCHANGED <<config, call, disk, error, stop_requested, fs_calls, probe, args>>

\* Path.rename(target) on a POSIX directory
RenameOnDisk(files, source, tgt) == (files \ {source}) \cup {tgt}

FsCall(ok) ==
    [source |-> CurrentFile, target |-> target.path, ok |-> ok,
     candidate |-> candidate]

\* `movie_file.rename(target_path)` of the console orchestrators: an OSError
\* is not caught
Renamed(ok) ==
    /\ steps' = Append(steps, Step("execute"))
    /\ fs_calls' = Append(fs_calls, FsCall(ok))
    /\ IF ok
       THEN /\ disk' = RenameOnDisk(disk, CurrentFile, target.path)
            /\ NextFile
            /\ UNCHANGED error
       ELSE /\ pc' = "raised"
            /\ error' = "OSError"
            /\ UNCHANGED <<disk, idx, file_vars>>
    /\ UNCHANGED <<config, call, selected, stop_requested, console, history, probe, args>>

(* renamer.py: MovieRenamer.process_directory *)

MovieRenamer_Search(res) ==
    /\ impl = "renamer"
    /\ pc = "loop"
    /\ Searched(prepare_search(PathStem(CurrentFile)), res)

MovieRenamer_Chosen(cand) ==
    Report(cand, MovieCandidate_proposed_filename(cand),
           MovieRenamer_determine_target_path(cand, disk))

MovieRenamer_Prompt(input) ==
    /\ impl = "renamer"
    /\ pc = "prompt"
    /\ CASE Choice(input, results) = "select" ->
              MovieRenamer_Chosen(
                  Candidate(CurrentFile, results[ToInt(input)], format_key,
                            search_info.season_number, search_info.episode_number))
         [] Choice(input, results) = "skip" -> Skipped
         [] OTHER -> Rejected(Choice(input, results))

MovieRenamer_Rename(ok) ==
    /\ impl = "renamer"
    /\ pc = "rename"
    /\ Renamed(ok)

(* rename_common.py: BaseRenamer.process_directory *)

BaseRenamer_Search(res) ==
    /\ impl = "common"
    /\ pc = "loop"
    /\ Searched(prepare_search(PathStem(CurrentFile)), res)

\* mutation of AlreadyMatches: the test is lost
AlreadyMatches_never(proposed, path) == FALSE

\* `if candidate.proposed_path == media_file:`
AlreadyMatches(proposed, path) == proposed = path

BaseRenamer_Checked(cand, proposed) ==
    IF AlreadyMatches(proposed, CurrentFile)
    THEN /\ console' = Append(console, Line("already_matches", CurrentFile, ""))
         /\ history' = Append(history, Event("select", cand))
         /\ NextFile
         /\ UNCHANGED <<config, call, disk, error, selected, stop_requested,
                        fs_calls, probe, args, steps>>
    ELSE Report(cand, proposed, BaseRenamer_determine_target_path(cand, disk))

BaseRenamer_Chosen(cand) ==
    BaseRenamer_Checked(cand, MediaCandidate_proposed_filename(cand))

BaseRenamer_Prompt(input) ==
    /\ impl = "common"
    /\ pc = "prompt"
    /\ CASE Choice(input, results) = "select" ->
              BaseRenamer_Chosen(
                  Candidate(CurrentFile, results[ToInt(input)], format_key,
                            search_info.season_number, search_info.episode_number))
         [] Choice(input, results) = "skip" -> Skipped
         [] OTHER -> Rejected(Choice(input, results))

BaseRenamer_Rename(ok) ==
    /\ impl = "common"
    /\ pc = "rename"
    /\ Renamed(ok)

(* gui.py: GUIMovieRenamer.process_directory *)

\* from the result of self._imdb_client.search on
GUI_Searched(query, res) ==
    /\ steps' = steps \o SearchSteps([query |-> query], res)
    /\ IF res = <<>>
       THEN /\ console' = console
                \o <<Line("searching", CurrentFile, ""), Line("no_matches", CurrentFile, "")>>
            /\ history' = Append(history, Event("none", NoCandidate))
            /\ NextFile
       ELSE /\ console' = Append(console, Line("searching", CurrentFile, ""))
            /\ search_info' =
                   [query |-> query, season_number |-> None, episode_number |-> None]
            /\ results' = res
            /\ pc' = "prompt"
            /\ UNCHANGED <<idx, retries, candidate, target, history>>
    /\ UNCHANGED error

\* `self._imdb_client.search(...)`: the attribute is looked up before the
\* argument is computed, and __init__ binds only _media_client
GUIMovieRenamer_Search(res) ==
    /\ impl = "gui"
    /\ pc = "loop"
    /\ IF imdb_client_set
       THEN GUI_Searched(guess_search_query(PathStem(CurrentFile)), res)
       ELSE /\ console' = Append(console, Line("searching", CurrentFile, ""))
            /\ pc' = "raised"
            /\ error' = "AttributeError"
            /\ UNCHANGED <<idx, file_vars, history, steps>>
    /\ UNCHANGED <<config, call, disk, selected, stop_requested, fs_calls, probe, args>>

\* mutation of Breaks: the stop flag is not looked at
Breaks_never(stop) == FALSE

\* `if self._stop_requested: ... break`
Breaks(stop) == stop

\* the dialog was closed with Skip (stop = FALSE) or Stop (stop = TRUE):
\* _prompt_for_choice returns None
GUI_Dismissed(stop) ==
    /\ stop_requested' = (stop_requested \/ stop)
    /\ history' = Append(history, Event(IF stop THEN "stop" ELSE "skip", NoCandidate))
    /\ IF Breaks(stop_requested \/ stop)
       THEN /\ console' = Append(console, Line("stopped", "", ""))
            /\ pc' = "returned"
            /\ UNCHANGED <<idx, file_vars>>
       ELSE /\ console' = Append(console, Line("skipped", CurrentFile, ""))
            /\ NextFile
    /\ UNCHANGED <<config, call, disk, error, selected, fs_calls, probe, args, steps>>

\* from selected_candidates.append on
GUI_Report(cand, proposed) ==
    /\ selected' = Append(selected, cand)
    /\ history' = Append(history, Event("select", cand))
    /\ IF SkipsRename(dry_run)
       THEN /\ console' = Append(console, Line("dry_run", CurrentFile, proposed))
            /\ NextFile
       ELSE /\ candidate' = cand
            /\ target' = [path |-> proposed, adjusted |-> FALSE]
            /\ pc' = "rename"
            /\ UNCHANGED <<idx, search_info, results, retries, console>>
    /\ UNCHANGED <<config, call, disk, error, stop_requested, fs_calls, probe, args, steps>>

GUI_Chosen(cand) == GUI_Report(cand, proposed_path("gui", cand))

GUIMovieRenamer_Prompt(input) ==
    /\ impl = "gui"
    /\ pc = "prompt"
    /\ CASE input = "stop" -> GUI_Dismissed(TRUE)
         [] input = "skip" -> GUI_Dismissed(FALSE)
         [] input = "" -> UNCHANGED vars
         [] OTHER ->
              /\ ToInt(input) <= Len(results)
              /\ GUI_Chosen(Candidate(CurrentFile, results[ToInt(input)], format_key,
                                      None, None))

\* `try: movie_file.rename(candidate.proposed_path) except OSError ... else ...`
GUIMovieRenamer_Rename(ok) ==
    /\ impl = "gui"
    /\ pc = "rename"
    /\ steps' = Append(steps, Step("execute"))
    /\ fs_calls' = Append(fs_calls, FsCall(ok))
    /\ disk' = IF ok THEN RenameOnDisk(disk, CurrentFile, target.path) ELSE disk
    /\ console' = Append(console,
                         Line(IF ok THEN "renamed" ELSE "failed", CurrentFile, target.path))
    /\ NextFile
    /\ UNCHANGED <<config, call, error, selected, stop_requested, history, probe, args>>

----------------------------------------------------------------------------
(* The orchestrator as a state machine.                                    *)

\* no call of process_directory was made and no function was applied
Fresh ==
    /\ pc = "idle"
    /\ error = ""
    /\ dry_run = TRUE
    /\ run = 0
    /\ movie_files = <<>>
    /\ idx = 0
    /\ search_info = NoSearchInfo
    /\ results = <<>>
    /\ retries = 0
    /\ target = NoTarget
    /\ selected = <<>>
    /\ stop_requested = FALSE
    /\ console = <<>>
    /\ fs_calls = <<>>
    /\ history = <<>>
    /\ probe = NoProbe
    /\ search_limit = 10
    /\ steps = <<>>

Init ==
    /\ \E r \in Renamers :
          /\ impl = r.impl
          /\ mode = r.mode
          /\ format_key = r.format_key
          /\ imdb_client_set = r.imdb_client_set
    /\ disk \in Directories
    /\ disk_before = disk
    /\ candidate = NoCandidate
    /\ args = NoArgs
    /\ Fresh

Next ==
    \/ \E dry \in BOOLEAN, limit \in SearchLimits : Start(dry, limit)
    \/ \E res \in ResultLists : MovieRenamer_Search(res)
    \/ \E input \in ConsoleInputs : MovieRenamer_Prompt(input)
    \/ \E ok \in BOOLEAN : MovieRenamer_Rename(ok)
    \/ \E res \in ResultLists : BaseRenamer_Search(res)
    \/ \E input \in ConsoleInputs : BaseRenamer_Prompt(input)
    \/ \E ok \in BOOLEAN : BaseRenamer_Rename(ok)
    \/ \E res \in ResultLists : GUIMovieRenamer_Search(res)
    \/ \E input \in DialogInputs : GUIMovieRenamer_Prompt(input)
    \/ \E ok \in BOOLEAN : GUIMovieRenamer_Rename(ok)

Spec == Init /\ [][Next]_vars

----------------------------------------------------------------------------
(* The rename planner on its own: _determine_target_path applied to a      *)
(* candidate of a discovered file and a directory content.                 *)

TargetUniverse == FileUniverse \cup {"The Matrix (2).mkv", ".mkv"}

\* titles with characters that _sanitize_title removes: all of them, one of them
Untitled == [title |-> "???", year |-> "", episode_title |-> ""]
FaceOff == [title |-> "Face/Off", year |-> "1997", episode_title |-> ""]

\* the candidate process_directory builds for `path` when `chosen` is selected
CandidateFor(path, chosen, key, info) ==
    Candidate(path, chosen, key, info.season_number, info.episode_number)

\* self._determine_target_path(cand) of the orchestrator class im
determine_target_path(im, cand, files) ==
    IF im = "common" THEN BaseRenamer_determine_target_path(cand, files)
    ELSE MovieRenamer_determine_target_path(cand, files)

TargetInit ==
    /\ impl \in {"renamer", "common"}
    /\ mode = "movie"
    /\ format_key \in MOVIE_RENAME_FORMATS
    /\ imdb_client_set = FALSE
    /\ disk \in SUBSET TargetUniverse
    /\ disk_before = disk
    /\ \E path \in {p \in disk : Lower(PathSuffix(p)) \in MEDIA_EXTENSIONS},
          chosen \in {TheMatrix, TheExpanse, Untitled, FaceOff} :
          candidate = CandidateFor(path, chosen, format_key,
                                   prepare_search(PathStem(path)))
    /\ args = NoArgs
    /\ Fresh

Probed(name, tgt) ==
    probe' = [done |-> TRUE, name |-> name, path |-> tgt.path, adjusted |-> tgt.adjusted]

DetermineTargetPath ==
    /\ ~probe.done
    /\ Probed(proposed_filename(impl, candidate),
              determine_target_path(impl, candidate, disk))
    /\ UNCHANGED <<config, call, disk, pc, error, idx, file_vars, selected,
                   stop_requested, console, fs_calls, history, args, steps>>

SpecTarget == TargetInit /\ [][DetermineTargetPath]_vars

----------------------------------------------------------------------------
(* Candidate rendering on its own: proposed_filename applied to a          *)
(* candidate of either class.                                              *)

Titles == {"The Expanse", "S02:E03", "The Matrix"}
EpisodeTitles == {"", "Static"}
Years == {"", "2015"}
SeasonNumbers == {None, 2}
EpisodeNumbers == {None, 3, 12, 123}
OriginalNames == {"The.Expanse.S02E03.1080p.mkv", "The Matrix.MKV"}

NameInit ==
    /\ impl \in {"renamer", "common"}
    /\ format_key \in AVAILABLE_RENAME_FORMATS
    /\ mode = IF format_key \in MOVIE_RENAME_FORMATS THEN "movie" ELSE "tv"
    /\ imdb_client_set = FALSE
    /\ disk \in {{n} : n \in OriginalNames}
    /\ disk_before = disk
    /\ \E path \in disk, t \in Titles, e \in EpisodeTitles, y \in Years,
          s \in SeasonNumbers, n \in EpisodeNumbers :
          candidate = Candidate(path, [title |-> t, year |-> y, episode_title |-> e],
                                format_key, s, n)
    /\ args = NoArgs
    /\ Fresh

ProposedFilename ==
    /\ ~probe.done
    /\ Probed(proposed_filename(impl, candidate), NoTarget)
    /\ UNCHANGED <<config, call, disk, pc, error, idx, file_vars, selected,
                   stop_requested, console, fs_calls, history, args, steps>>

SpecName == NameInit /\ [][ProposedFilename]_vars

----------------------------------------------------------------------------
(* The constructors on their own: a renamer is constructed from drawn      *)
(* arguments and, when that succeeded, builds the candidate for a file of  *)
(* the directory and a selected match.  probe.done says that the           *)
(* constructor was called.                                                 *)

\* the registered keys, no key, and a key that no registry holds
FormatArguments == AVAILABLE_RENAME_FORMATS \cup {NoFormat, "show_title"}

\* media_mode arguments of renamer.py; BaseRenamer has one subclass per mode
\* and GUIMovieRenamer has no such parameter
ModeArguments(im) ==
    CASE im = "renamer" -> {"movie", "tv", "TV", "music"}
      [] im = "common" -> {"movie", "tv"}
      [] im = "gui" -> {"movie"}

ConstructorCalls ==
    {[kind |-> "construct", impl |-> im, rename_format |-> f, media_mode |-> m] :
        <<im, f, m>> \in {c \in {"renamer", "common", "gui"} \X FormatArguments
                                    \X {"movie", "tv", "TV", "music"} :
                             c[3] \in ModeArguments(c[1])}}

FormatInit ==
    /\ args \in ConstructorCalls
    /\ impl = args.impl
    /\ mode = ""
    /\ format_key = ""
    /\ imdb_client_set = FALSE
    /\ disk \in {{n} : n \in FileUniverse}
    /\ disk_before = disk
    /\ candidate = NoCandidate
    /\ Fresh

Constructed(outcome) ==
    /\ mode' = outcome.mode
    /\ format_key' = outcome.key
    /\ error' = outcome.error
    /\ pc' = IF outcome.error = "" THEN "idle" ELSE "raised"
    /\ probe' = [NoProbe EXCEPT !.done = TRUE]
    /\ UNCHANGED <<impl, imdb_client_set, call, disk, idx, file_vars, selected,
                   stop_requested, console, fs_calls, history, args, steps>>

Construct ==
    /\ args.kind = "construct"
    /\ ~probe.done
    /\ Constructed(init(args.impl, args.rename_format, args.media_mode))

\* the numbers process_directory of im hands to the candidate of `path`:
\* GUIMovieRenamer passes none
NumbersFor(im, path) ==
    IF im = "gui" THEN NoSearchInfo ELSE prepare_search(PathStem(path))

Proposed(cand) ==
    /\ candidate' = cand
    /\ probe' = [probe EXCEPT !.name = proposed_filename(impl, cand)]
    /\ UNCHANGED <<config, call, disk, pc, error, idx, search_info, results,
                   retries, target, selected, stop_requested, console, fs_calls,
                   history, args, steps>>

\* the candidate of the constructed renamer for `path` and the match `chosen`
Propose(path, chosen) ==
    /\ args.kind = "construct"
    /\ probe.done
    /\ pc = "idle"
    /\ candidate = NoCandidate
    /\ Proposed(CandidateFor(path, chosen, format_key, NumbersFor(impl, path)))

FormatNext ==
    \/ Construct
    \/ \E path \in disk, chosen \in {TheMatrix, TheExpanse} : Propose(path, chosen)

SpecFormat == FormatInit /\ [][FormatNext]_vars

----------------------------------------------------------------------------
(* The parser on its own: _prepare_search applied to the name of a file.   *)
(* A name is put together from parts whose meaning is known:               *)
(*   <title>[.<number>][.<decoy>][.<marker>][.<number>][<tail>].mkv        *)
(* where marker is a season/episode marker of pattern p with its values,   *)
(* decoy a marker of a pattern of lower priority, number a token of four   *)
(* digits and tail the release metadata at the end of the name.            *)

ParseTitles == {"Doctor.Who", "Some.Show"}

\* tokens of four digits: two years and a number that is no year
FourDigitTokens == {"2005", "1999", "1899"}

NoMarker == [p |-> 0, text |-> "", season |-> None, episode |-> None]

SeasonEpisodeMarkers ==
    {[p |-> 1, text |-> "S02E03", season |-> 2, episode |-> 3],
     [p |-> 1, text |-> "s1.e12", season |-> 1, episode |-> 12],
     [p |-> 2, text |-> "2x03", season |-> 2, episode |-> 3],
     [p |-> 3, text |-> "Season.2.Episode.3", season |-> 2, episode |-> 3],
     [p |-> 3, text |-> "season_10-ep_7", season |-> 10, episode |-> 7]}

\* markers that stand before the marker, of the patterns 2 and 3
Decoys ==
    {[p |-> 2, text |-> "4x05", season |-> 4, episode |-> 5],
     [p |-> 3, text |-> "Season.6.Ep.7", season |-> 6, episode |-> 7]}

ReleaseTails == {"", ".1080p", ".WEB-DL.x264", ".ddp5.1", ".ddp5"}

\* a release tag that stands right after the title, before any number
LeadTags == {"", ".1080p"}

\* "." and part, when there is a part
Dotted(part) == IF part = "" THEN "" ELSE "." \o part

\* the name of the file with these parts; number stands before the marker
\* when before is TRUE, after it otherwise
NameOf(title, lead, number, before, decoy, marker, tail) ==
    title \o lead \o (IF before THEN Dotted(number) ELSE "")
          \o Dotted(decoy.text) \o Dotted(marker.text)
          \o (IF before THEN "" ELSE Dotted(number))
          \o tail \o ".mkv"

ParseCalls ==
    {[kind |-> "parse", title |-> c[1], number |-> c[2], before |-> c[3],
      decoy |-> c[4], marker |-> c[5], tail |-> c[6], lead |-> c[7],
      name |-> NameOf(c[1], c[7], c[2], c[3], c[4], c[5], c[6])] :
        c \in {d \in ParseTitles \X (FourDigitTokens \cup {""}) \X BOOLEAN
                       \X (Decoys \cup {NoMarker})
                       \X (SeasonEpisodeMarkers \cup {NoMarker}) \X ReleaseTails
                       \X LeadTags :
                  /\ d[4].p # 0 => (d[5].p # 0 /\ d[4].p > d[5].p)
                  /\ (d[2] = "" \/ d[5].p = 0) => d[3]}}

ParseInit ==
    /\ args \in ParseCalls
    /\ impl \in {"renamer", "common"}
    /\ mode = "tv"
    /\ format_key = DEFAULT_TV_RENAME_FORMAT_KEY
    /\ imdb_client_set = FALSE
    /\ disk = {args.name}
    /\ disk_before = disk
    /\ candidate = NoCandidate
    /\ Fresh

\* search_info = self._prepare_search(path)
PrepareSearch ==
    /\ args.kind = "parse"
    /\ ~probe.done
    /\ search_info' = prepare_search(PathStem(args.name))
    /\ probe' = [NoProbe EXCEPT !.done = TRUE]
    /\ UNCHANGED <<config, call, disk, pc, error, idx, results, retries, candidate,
                   target, selected, stop_requested, console, fs_calls, history,
                   args, steps>>

SpecParse == ParseInit /\ [][PrepareSearch]_vars

----------------------------------------------------------------------------
(* _strip_trailing_release_tokens on its own, applied to a string of       *)
(* tokens of which it is known whether they belong to the release          *)
(* vocabulary.                                                             *)

\* most tokens in the string
MaxTokens == 3

TokenVocabulary ==
    {[text |-> "Show", release |-> FALSE],
     [text |-> "1999", release |-> FALSE],
     [text |-> "12345p", release |-> FALSE],
     [text |-> "720p", release |-> TRUE],
     [text |-> "x264", release |-> TRUE],
     [text |-> "WEB-DL", release |-> TRUE],
     [text |-> "DDP5.1", release |-> TRUE]}

TokenLists == UNION {[1..n -> TokenVocabulary] : n \in 0..MaxTokens}

\* the texts of the first n tokens
Texts(tokens, n) == [i \in 1..n |-> tokens[i].text]

StripCalls ==
    {[kind |-> "strip", tokens |-> t, value |-> Join(Texts(t, Len(t)))] : t \in TokenLists}

StripInit ==
    /\ args \in StripCalls
    /\ impl \in {"renamer", "common"}
    /\ mode = "tv"
    /\ format_key = DEFAULT_TV_RENAME_FORMAT_KEY
    /\ imdb_client_set = FALSE
    /\ disk = {}
    /\ disk_before = disk
    /\ candidate = NoCandidate
    /\ Fresh

\* base = _strip_trailing_release_tokens(base)
StripTrailingReleaseTokens ==
    /\ args.kind = "strip"
    /\ ~probe.done
    /\ probe' = [NoProbe EXCEPT !.done = TRUE,
                                !.name = strip_trailing_release_tokens(args.value)]
    /\ UNCHANGED <<config, call, disk, pc, error, idx, file_vars, selected,
                   stop_requested, console, fs_calls, history, args, steps>>

SpecStrip == StripInit /\ [][StripTrailingReleaseTokens]_vars

----------------------------------------------------------------------------
(* build_name on its own, applied to contexts that need not come from a    *)
(* candidate: their fields can hold whitespace anywhere.                   *)

BuildContexts ==
    [series_title : {"", " ", "The Expanse", "The  Expanse ", "\tThe Expanse"},
     episode_title : {"", " ", "Static"},
     year : {"", "2015", "20  15"},
     season_number : {None, 2},
     episode_number : {None, 3}]

BuildInit ==
    /\ args \in [kind : {"build"}, context : BuildContexts]
    /\ impl \in {"renamer", "common"}
    /\ format_key \in AVAILABLE_RENAME_FORMATS
    /\ mode = IF format_key \in MOVIE_RENAME_FORMATS THEN "movie" ELSE "tv"
    /\ imdb_client_set = FALSE
    /\ disk = {}
    /\ disk_before = disk
    /\ candidate = NoCandidate
    /\ Fresh

\* filename = self.format_spec.build_name(context)
BuildName ==
    /\ args.kind = "build"
    /\ ~probe.done
    /\ probe' = [NoProbe EXCEPT !.done = TRUE,
                                !.name = build_name(format_key, args.context)]
    /\ UNCHANGED <<config, call, disk, pc, error, idx, file_vars, selected,
                   stop_requested, console, fs_calls, history, args, steps>>

SpecBuild == BuildInit /\ [][BuildName]_vars

----------------------------------------------------------------------------
(* imdb_client.py: IMDBClient._request.  One call is a sequence of         *)
(* attempts; `retries` counts the failed ones (the local `attempt`),       *)
(* `steps` logs the GETs and the sleeps, `results` holds what the call     *)
(* returned and `error` what it raised.  pc is "get" while the loop runs.  *)
(* Delays are counted in units of the caller's choice.                     *)

\* the values a caller passes as max_retries and as backoff_factor
MaxRetriesArguments == {0 - 1, 0, 1, 2, 3}
BackoffArguments == {0 - 1, 0, 1, 3}

\* what an attempt can end with: a JSON object, a JSON value of another
\* type, a requests.exceptions.RequestException, an exception of another
\* class
AttemptOutcomes == {"dict", "list", "RequestException", "KeyError"}

Max(a, b) == IF a >= b THEN a ELSE b

RECURSIVE Pow2(_)
Pow2(n) == IF n <= 0 THEN 1 ELSE 2 * Pow2(n - 1)

\* self._max_retries = max(1, int(max_retries))
IMDBClient_max_retries(max_retries) == Max(1, max_retries)

\* self._backoff_factor = max(0.0, backoff_factor)
IMDBClient_backoff_factor(backoff_factor) == Max(0, backoff_factor)

\* mutation of Delay: the delay does not grow
Delay_flat(factor, attempt) == factor

\* delay = self._backoff_factor * (2 ** (attempt - 1))
Delay(factor, attempt) == factor * Pow2(attempt - 1)

GetEvent(n) == [kind |-> "get", attempt |-> n, delay |-> 0]

\* `if delay: time.sleep(delay)`
SleepEvents(n, delay) ==
    IF delay # 0 THEN <<[kind |-> "sleep", attempt |-> n, delay |-> delay]>> ELSE <<>>

\* the exception object raised in attempt n
ExceptionOf(class, n) == [class |-> class, attempt |-> n]

RequestInit ==
    /\ args \in [kind : {"request"}, max_retries : MaxRetriesArguments,
                 backoff_factor : BackoffArguments]
    /\ impl = "renamer"
    /\ mode = "movie"
    /\ format_key = DEFAULT_RENAME_FORMAT_KEY
    /\ imdb_client_set = FALSE
    /\ disk = {}
    /\ disk_before = disk
    /\ candidate = NoCandidate
    /\ Fresh

request_frame == <<config, call, disk, idx, search_info, candidate, target, selected,
                   stop_requested, console, fs_calls, history, probe, args>>

\* `attempt = 0 ... while attempt < self._max_retries:` entered for the
\* first time
IMDBClient_Request ==
    /\ args.kind = "request"
    /\ pc = "idle"
    /\ pc' = "get"
    /\ UNCHANGED <<error, retries, results, steps, request_frame>>

\* the attempt returned a payload
Responded(outcome, n) ==
    /\ steps' = Append(steps, GetEvent(n))
    /\ results' = <<IF outcome = "dict" THEN [payload |-> "dict", attempt |-> n]
                    ELSE [payload |-> "empty", attempt |-> n]>>
    /\ pc' = "returned"
    /\ UNCHANGED <<error, retries, request_frame>>

\* an exception that `except requests.exceptions.RequestException` lets pass
Escaped(class, n) ==
    /\ steps' = Append(steps, GetEvent(n))
    /\ error' = ExceptionOf(class, n)
    /\ pc' = "raised"
    /\ UNCHANGED <<retries, results, request_frame>>

\* the except clause: n is the value of attempt after `attempt += 1`
Caught(n, limit, factor) ==
    /\ retries' = n
    /\ IF n >= limit
       THEN /\ steps' = Append(steps, GetEvent(n))
            /\ error' = ExceptionOf("RequestException", n)
            /\ pc' = "raised"
       ELSE /\ steps' = Append(steps, GetEvent(n)) \o SleepEvents(n, Delay(factor, n))
            /\ UNCHANGED <<error, pc>>
    /\ UNCHANGED <<results, request_frame>>

\* one round of the while loop
IMDBClient_Get(outcome) ==
    /\ args.kind = "request"
    /\ pc = "get"
    /\ retries < IMDBClient_max_retries(args.max_retries)
    /\ CASE outcome \in {"dict", "list"} -> Responded(outcome, retries + 1)
         [] outcome = "RequestException" ->
              Caught(retries + 1, IMDBClient_max_retries(args.max_retries),
                     IMDBClient_backoff_factor(args.backoff_factor))
         [] OTHER -> Escaped(outcome, retries + 1)

RequestNext ==
    \/ IMDBClient_Request
    \/ \E outcome \in AttemptOutcomes : IMDBClient_Get(outcome)

SpecRequest == RequestInit /\ [][RequestNext]_vars

----------------------------------------------------------------------------
(* imdb_client.py: IMDBClient._extract_episode_from_collection.  An entry  *)
(* of the "episodes" collection is a JSON value: `dict` tells whether it   *)
(* is an object, and an object has an id, a title ("" when it has none)    *)
(* and an episodeNumber.  Optional results are sequences of length 0 or 1. *)

\* most entries of one episodes collection
MaxEpisodes == 3

\* the JSON values found under "episodeNumber": nothing, a number, a string
NoNumber == [type |-> "absent", v |-> 0, text |-> ""]
JsonInt(n) == [type |-> "int", v |-> n, text |-> ""]
JsonStr(t) == [type |-> "str", v |-> 0, text |-> t]

EpisodeNumberValues == {NoNumber, JsonInt(2), JsonInt(3), JsonStr("3"), JsonStr("x")}

NotADict == [dict |-> FALSE, id |-> "", title |-> "", episodeNumber |-> NoNumber]

EpisodeEntries ==
    {NotADict}
    \cup {[dict |-> TRUE, id |-> i, title |-> "Static", episodeNumber |-> n] :
            i \in {"tt200", "tt201"}, n \in EpisodeNumberValues}

Collections(entries) == UNION {[1..n -> entries] : n \in 0..MaxEpisodes}

\* int(number) raises TypeError for None and ValueError for a string that is
\* not a numeral
IntRaises(number) ==
    \/ number.type = "absent"
    \/ number.type = "str"
         /\ (number.text = "" \/ \E i \in 1..Len(number.text) : ~IsDigit(Ch(number.text, i)))

\* int(number) where it raises nothing
IntOf(number) == IF number.type = "int" THEN number.v ELSE ToInt(number.text)

\* mutation of Fallback: the latest dict entry is kept
Fallback_latest(fallback, entry) == <<entry>>

\* `if fallback is None: fallback = entry`
Fallback(fallback, entry) == IF fallback = <<>> THEN <<entry>> ELSE fallback

\* the for loop of _extract_episode_from_collection from entry i on
RECURSIVE ExtractFrom(_, _, _, _)
ExtractFrom(episodes, i, fallback, episode_number) ==
    IF i > Len(episodes) THEN fallback
    ELSE IF ~episodes[i].dict THEN ExtractFrom(episodes, i + 1, fallback, episode_number)
    ELSE IF IntRaises(episodes[i].episodeNumber)
         THEN ExtractFrom(episodes, i + 1, Fallback(fallback, episodes[i]), episode_number)
    ELSE IF IntOf(episodes[i].episodeNumber) = episode_number THEN <<episodes[i]>>
    ELSE ExtractFrom(episodes, i + 1, Fallback(fallback, episodes[i]), episode_number)

extract_episode_from_collection(episodes, episode_number) ==
    ExtractFrom(episodes, 1, <<>>, episode_number)

ExtractInit ==
    /\ args \in [kind : {"extract"}, episodes : Collections(EpisodeEntries),
                 episode_number : {2, 3}]
    /\ impl = "renamer"
    /\ mode = "tv"
    /\ format_key = DEFAULT_RENAME_FORMAT_KEY
    /\ imdb_client_set = FALSE
    /\ disk = {}
    /\ disk_before = disk
    /\ candidate = NoCandidate
    /\ Fresh

\* self._extract_episode_from_collection(episodes, episode_number)
ExtractEpisode ==
    /\ args.kind = "extract"
    /\ pc = "idle"
    /\ results' = extract_episode_from_collection(args.episodes, args.episode_number)
    /\ pc' = "returned"
    /\ UNCHANGED <<error, retries, steps, request_frame>>

SpecExtract == ExtractInit /\ [][ExtractEpisode]_vars

----------------------------------------------------------------------------
(* imdb_client.py: IMDBClient.search_episode.  A call is a title search    *)
(* and then one round of the for loop per series candidate; idx is the     *)
(* candidate of the next round, results the list built so far, steps the   *)
(* calls of _request with the number of results collected when each was    *)
(* made.                                                                   *)

\* the dicts of the title search: two series and an entry without an id
SeriesA == [id |-> "tt400", title |-> "Series A", year |-> "2010"]
SeriesB == [id |-> "tt401", title |-> "Series B", year |-> "2011"]
NoIdSeries == [id |-> "", title |-> "Series C", year |-> ""]

MaxCandidates == 3

CandidateLists ==
    UNION {[1..n -> {SeriesA, SeriesB, NoIdSeries}] : n \in 0..MaxCandidates}

\* the `limit` arguments
LimitArguments == {0, 1, 2}

Episode(id, title, n) == [dict |-> TRUE, id |-> id, title |-> title, episodeNumber |-> n]

\* the dict {}
EmptyDict == Episode("", "", NoNumber)

\* stands for a payload without an iterable under "episodes"
NoEpisodes == <<[dict |-> FALSE, id |-> "missing", title |-> "", episodeNumber |-> NoNumber]>>

EpisodeLists ==
    {<<>>,
     <<NotADict>>,
     <<EmptyDict>>,
     <<Episode("tt500", "Found", JsonInt(3))>>,
     <<Episode("tt501", "Other", JsonInt(4)), Episode("", " Found ", JsonStr("3"))>>,
     <<Episode("tt502", " ", JsonInt(3))>>}

\* what a call of _request for a series can end with
LookupOutcomes == {"payload", "RequestException", "RuntimeError"}

\* `if not episode_payload`: None and {} are false
IsFalsy(found) == found = <<>> \/ found[1] = EmptyDict

\* _resolve_episode_title on the modelled key: the stripped text, "" for None
resolve_episode_title(payload) == Strip(payload.title)

\* IMDBMovie(id=str(episode_id), title=series_metadata.title, ...)
EpisodeResult(series, payload) ==
    [id |-> IF payload.id # "" THEN payload.id ELSE series.id,
     title |-> series.title,
     year |-> series.year,
     episode_title |-> resolve_episode_title(payload)]

RequestEvent(path, id, collected) == [kind |-> path, id |-> id, collected |-> collected]

\* mutation of LimitReached: the list may grow one past the limit
LimitReached_late(collected, limit) == collected > limit

\* `if len(results) >= limit: break`
LimitReached(collected, limit) == collected >= limit

episode_frame == <<config, call, disk, retries, search_info, candidate, target, selected,
                   stop_requested, console, fs_calls, history, probe, args>>

EpisodeInit ==
    /\ args \in [kind : {"episode"}, query : {" ", "Series"},
                 candidates : CandidateLists, limit : LimitArguments,
                 episode_number : {3}]
    /\ impl = "renamer"
    /\ mode = "tv"
    /\ format_key = DEFAULT_RENAME_FORMAT_KEY
    /\ imdb_client_set = FALSE
    /\ disk = {}
    /\ disk_before = disk
    /\ candidate = NoCandidate
    /\ Fresh

\* the top of a round: the loop is over when the candidates are used up or
\* the limit is reached, and the function returns
NextRound(i, res) ==
    /\ idx' = i
    /\ results' = res
    /\ pc' = IF i > Len(args.candidates) \/ LimitReached(Len(res), args.limit)
             THEN "returned" ELSE "loop"

\* the call up to the first round of the loop
SearchEpisode(outcome) ==
    /\ args.kind = "episode"
    /\ pc = "idle"
    /\ IF Strip(args.query) = ""
       THEN /\ pc' = "returned"
            /\ UNCHANGED <<results, steps, error, idx>>
       ELSE /\ steps' = Append(steps, RequestEvent("titles", "", 0))
            /\ IF outcome = "payload"
               THEN NextRound(1, <<>>) /\ UNCHANGED error
               ELSE /\ pc' = "raised"
                    /\ error' = outcome
                    /\ UNCHANGED <<results, idx>>
    /\ UNCHANGED episode_frame

\* the rest of a round once the payload of the episode request is there
Collected(series, episodes) ==
    IF episodes = NoEpisodes THEN results
    ELSE IF IsFalsy(extract_episode_from_collection(episodes, args.episode_number))
    THEN results
    ELSE IF resolve_episode_title(
                extract_episode_from_collection(episodes, args.episode_number)[1]) = ""
    THEN results
    ELSE Append(results,
                EpisodeResult(series,
                    extract_episode_from_collection(episodes, args.episode_number)[1]))

\* one round of `for candidate in series_candidates`
SearchEpisodeRound(outcome, episodes) ==
    /\ args.kind = "episode"
    /\ pc = "loop"
    /\ IF args.candidates[idx].id = ""
       THEN NextRound(idx + 1, results) /\ UNCHANGED <<steps, error>>
       ELSE /\ steps' = Append(steps, RequestEvent("episodes", args.candidates[idx].id,
                                                    Len(results)))
            /\ CASE outcome = "payload" ->
                      /\ NextRound(idx + 1, Collected(args.candidates[idx], episodes))
                      /\ UNCHANGED error
                 [] outcome = "RequestException" ->
                      NextRound(idx + 1, results) /\ UNCHANGED error
                 [] OTHER ->
                      /\ pc' = "raised"
                      /\ error' = outcome
                      /\ UNCHANGED <<results, idx>>
    /\ UNCHANGED episode_frame

EpisodeNext ==
    \/ \E outcome \in LookupOutcomes : SearchEpisode(outcome)
    \/ \E outcome \in LookupOutcomes, episodes \in EpisodeLists \cup {NoEpisodes} :
          SearchEpisodeRound(outcome, episodes)

SpecEpisode == EpisodeInit /\ [][EpisodeNext]_vars

----------------------------------------------------------------------------
(* tvdb_client.py: TheTVDBClient._invoke_episode_lookup.  Argument values  *)
(* are written as strings ("None" for None); a call signature is a tuple   *)
(* of positional values and a set of keyword/value pairs.  idx is the      *)
(* attempt the for loop is at, steps the signatures the callable was       *)
(* called with.                                                            *)

Kw(key, value) == [key |-> key, value |-> value]

Signature(positional, keywords) == [args |-> positional, kwargs |-> keywords]

\* the `attempts` list
LookupAttempts(series_id, season_number, episode_number) ==
    <<Signature(<<series_id, season_number, episode_number>>, {}),
      Signature(<<series_id>>, {Kw("season", season_number), Kw("episode", episode_number)}),
      Signature(<<series_id>>, {Kw("seasonNumber", season_number),
                                Kw("episodeNumber", episode_number)}),
      Signature(<<series_id, season_number>>, {Kw("episode", episode_number)}),
      Signature(<<series_id>>, {Kw("season", season_number),
                                Kw("episodeNumber", episode_number)}),
      Signature(<<series_id>>, {Kw("seasonNumber", season_number),
                                Kw("episode", episode_number)}),
      Signature(<<>>, {Kw("series", series_id), Kw("season", season_number),
                       Kw("episode", episode_number)}),
      Signature(<<>>, {Kw("seriesId", series_id), Kw("seasonNumber", season_number),
                       Kw("episodeNumber", episode_number)})>>

\* {key: value for key, value in kwargs.items() if value is not None}
FilteredKwargs(kwargs) == {kw \in kwargs : kw.value # "None"}

Keys(kwargs) == {kw.key : kw \in kwargs}

\* the callables handed in: one per shape with plain Python parameters
\* (positional count and exact keyword names), the two callables of
\* test_tvdb_client.py that require a season type, one that accepts
\* nothing and one that raises ValueError
ShapeCallables ==
    {[kind |-> "shape", nargs |-> 3, keys |-> {}],
     [kind |-> "shape", nargs |-> 1, keys |-> {"season", "episode"}],
     [kind |-> "shape", nargs |-> 1, keys |-> {"seasonNumber", "episodeNumber"}],
     [kind |-> "shape", nargs |-> 2, keys |-> {"episode"}],
     [kind |-> "shape", nargs |-> 1, keys |-> {"season", "episodeNumber"}],
     [kind |-> "shape", nargs |-> 1, keys |-> {"seasonNumber", "episode"}],
     [kind |-> "shape", nargs |-> 0, keys |-> {"series", "season", "episode"}],
     [kind |-> "shape", nargs |-> 0, keys |-> {"seriesId", "seasonNumber", "episodeNumber"}],
     [kind |-> "shape", nargs |-> 1, keys |-> {"episode"}]}

SeasonTypePositional == [kind |-> "season_type_positional", nargs |-> 4, keys |-> {}]
SeasonTypeKeyword == [kind |-> "season_type_keyword", nargs |-> 0, keys |-> {"seasonType"}]
AcceptsNothing == [kind |-> "nothing", nargs |-> 0, keys |-> {}]
RaisesValueError == [kind |-> "value_error", nargs |-> 0, keys |-> {}]

LookupCallables ==
    ShapeCallables \cup {SeasonTypePositional, SeasonTypeKeyword, AcceptsNothing,
                         RaisesValueError}

\* func(*args, **kwargs) returns (otherwise it raises)
Accepts(func, sig) ==
    CASE func.kind = "shape" -> Len(sig.args) = func.nargs /\ Keys(sig.kwargs) = func.keys
      [] func.kind = "season_type_positional" ->
            Len(sig.args) = 4 /\ sig.args[2] = "official"
      [] func.kind = "season_type_keyword" -> Kw("seasonType", "official") \in sig.kwargs
      [] OTHER -> FALSE

lookup_frame == <<config, call, disk, retries, search_info, candidate, target, selected,
                  stop_requested, console, fs_calls, history, probe, args>>

LookupInit ==
    /\ args \in [kind : {"lookup"}, func : LookupCallables, series_id : {"1"},
                 season_number : {"2", "None"}, episode_number : {"3", "None"}]
    /\ impl = "common"
    /\ mode = "tv"
    /\ format_key = DEFAULT_RENAME_FORMAT_KEY
    /\ imdb_client_set = FALSE
    /\ disk = {}
    /\ disk_before = disk
    /\ candidate = NoCandidate
    /\ Fresh

\* the call with the signature of one attempt
Called(sig) == Signature(sig.args, FilteredKwargs(sig.kwargs))

\* one round of `for args, kwargs in attempts`, and the raise after the loop
\* when it was the last round
InvokeEpisodeLookup ==
    /\ args.kind = "lookup"
    /\ pc \in {"idle", "loop"}
    /\ idx < Len(LookupAttempts(args.series_id, args.season_number, args.episode_number))
    /\ idx' = idx + 1
    /\ steps' = Append(steps,
                   Called(LookupAttempts(args.series_id, args.season_number,
                                         args.episode_number)[idx + 1]))
    /\ IF Accepts(args.func,
                  Called(LookupAttempts(args.series_id, args.season_number,
                                        args.episode_number)[idx + 1]))
       THEN /\ pc' = "returned"
            /\ results' = <<[name |-> "Episode", attempt |-> idx + 1]>>
            /\ UNCHANGED error
       ELSE IF args.func = RaisesValueError
       THEN /\ pc' = "raised"
            /\ error' = "ValueError"
            /\ UNCHANGED results
       ELSE IF idx + 1 = Len(LookupAttempts(args.series_id, args.season_number,
                                            args.episode_number))
       THEN /\ pc' = "raised"
            /\ error' = "TypeError"
            /\ UNCHANGED results
       ELSE /\ pc' = "loop"
            /\ UNCHANGED <<error, results>>
    /\ UNCHANGED lookup_frame

SpecLookup == LookupInit /\ [][InvokeEpisodeLookup]_vars

----------------------------------------------------------------------------
(* A dry run followed by a real run of the console orchestrators on the    *)
(* same directory.  args keeps what the dry run reported and what the      *)
(* collaborators answered in it, for the comparison with the real run.     *)

\* the "DRY RUN: file -> name" lines of the console
DryRunLines(lines) == SelectSeq(lines, LAMBDA l : l.kind = "dry_run")

NothingReported == [kind |-> "predict", reported |-> <<>>, answers |-> <<>>]

\* console inputs that _prompt_for_choice does not reject
AcceptedInputs == {"0", "1", "2"}

PredictInit ==
    /\ \E r \in {c \in Renamers : c.impl # "gui"} :
          /\ impl = r.impl
          /\ mode = r.mode
          /\ format_key = r.format_key
          /\ imdb_client_set = r.imdb_client_set
    /\ disk \in Directories
    /\ disk_before = disk
    /\ candidate = NoCandidate
    /\ args = NothingReported
    /\ Fresh

\* process_directory(directory, dry_run=True)
DryRun ==
    /\ run = 0
    /\ Start(TRUE, 10)

\* process_directory(directory, dry_run=False) once the dry run returned
RealRun ==
    /\ run = 1
    /\ pc = "returned"
    /\ args' = [kind |-> "predict", reported |-> DryRunLines(console), answers |-> history]
    /\ run' = run + 1
    /\ dry_run' = FALSE
    /\ search_limit' = 10
    /\ steps' = <<>>
    /\ disk_before' = disk
    /\ movie_files' = discover_media_files(disk)
    /\ idx' = 1
    /\ pc' = IF discover_media_files(disk) = <<>> THEN "returned" ELSE "loop"
    /\ error' = ""
    /\ selected' = <<>>
    /\ stop_requested' = FALSE
    /\ console' = <<>>
    /\ fs_calls' = <<>>
    /\ history' = <<>>
    /\ UNCHANGED <<config, disk, file_vars, probe>>

PredictNext ==
    \/ DryRun
    \/ RealRun
    \/ \E res \in ResultLists : MovieRenamer_Search(res)
    \/ \E input \in AcceptedInputs : MovieRenamer_Prompt(input)
    \/ MovieRenamer_Rename(TRUE)
    \/ \E res \in ResultLists : BaseRenamer_Search(res)
    \/ \E input \in AcceptedInputs : BaseRenamer_Prompt(input)
    \/ BaseRenamer_Rename(TRUE)

SpecPredict == PredictInit /\ [][PredictNext]_vars

----------------------------------------------------------------------------
(* Discovery on its own.  A directory tree is a set of entries             *)
(* [path, kind]: path is relative to the directory that is processed, with *)
(* "/" between its parts, and kind says what the entry is.  The operating  *)
(* system lists a directory in an order of its own, which differs from run *)
(* to run.                                                                 *)

MaxEntries == 3

EntryUniverse ==
    {[path |-> "b.mkv", kind |-> "file"],
     [path |-> "A.MP4", kind |-> "file"],
     [path |-> "a.Avi", kind |-> "file"],
     [path |-> "notes.txt", kind |-> "file"],
     [path |-> "mkv", kind |-> "file"],
     [path |-> ".mkv", kind |-> "file"],
     [path |-> "Season 1.mkv", kind |-> "directory"],
     [path |-> "Extras", kind |-> "directory"],
     [path |-> "Extras/Bonus.mkv", kind |-> "file"],
     [path |-> "link.mp4", kind |-> "link_to_file"],
     [path |-> "dead.mkv", kind |-> "broken_link"]}

\* a tree holds the directory of every entry it holds
Trees ==
    {t \in SUBSET EntryUniverse :
        /\ Cardinality(t) <= MaxEntries
        /\ \A e \in t : e.path = "Extras/Bonus.mkv"
              => [path |-> "Extras", kind |-> "directory"] \in t}

\* the entries directory.iterdir() yields: those of the directory itself
iterdir(tree) == {e \in tree : \A i \in 1..Len(e.path) : Ch(e.path, i) # "/"}

\* the orders in which the entries of S can be yielded
Orders(S) ==
    {o \in [1..Cardinality(S) -> S] :
        \A i \in 1..Cardinality(S), j \in 1..Cardinality(S) : o[i] = o[j] => i = j}

\* Path.is_file(): a regular file, or a link that leads to one
is_file(e) == e.kind \in {"file", "link_to_file"}

\* sorted(p for p in directory.iterdir() if p.is_file() and ...), the entries
\* being yielded in the order `order`
discover(order) ==
    discover_media_files({order[i].path : i \in {j \in DOMAIN order : is_file(order[j])}})

DiscoverInit ==
    /\ args \in [kind : {"discover"}, tree : Trees]
    /\ \E r \in Renamers :
          /\ impl = r.impl
          /\ mode = r.mode
          /\ format_key = r.format_key
          /\ imdb_client_set = r.imdb_client_set
    /\ disk = {}
    /\ disk_before = disk
    /\ candidate = NoCandidate
    /\ Fresh

Discovered(listing) ==
    /\ movie_files' = listing
    /\ history' = Append(history, listing)
    /\ run' = run + 1
    /\ UNCHANGED <<config, disk, disk_before, dry_run, search_limit, idx, file_vars, selected,
                   stop_requested, pc, error, console, fs_calls, probe, args, steps>>

\* one run of discovery over the tree
Discover(order) ==
    /\ args.kind = "discover"
    /\ run < MaxRuns
    /\ Discovered(discover(order))

DiscoverNext == \E order \in Orders(iterdir(args.tree)) : Discover(order)

SpecDiscover == DiscoverInit /\ [][DiscoverNext]_vars

----------------------------------------------------------------------------
(* The search step on its own: _perform_search applied to a parsed query   *)
(* and a client.  A client is a record                                     *)
(*   [search_episode, episode_outcome, search_outcome]:                    *)
(* whether it has an attribute search_episode and whether that is          *)
(* callable, and what its two methods do when they are called.  The        *)
(* outcome of the step is a record [calls, results, error].                *)

\* what search_episode returns, and what search returns
EpisodeResults == <<TheExpanse>>
PlainResults == <<TheMatrix, TheExpanse>>

Clients ==
    [search_episode : {"absent", "not_callable", "callable"},
     episode_outcome : {"results", "empty", "Exception", "KeyboardInterrupt"},
     search_outcome : {"results", "empty", "Exception"}]

SearchInfos ==
    [query : {"The Expanse"}, season_number : {None, 2}, episode_number : {None, 3}]

\* client.search(query, limit=limit)
SearchCall(info, limit) ==
    [method |-> "search", query |-> info.query, season |-> None, episode |-> None,
     limit |-> limit]

\* client.search_episode(query, season, episode, limit=limit)
SearchEpisodeCall(info, limit) ==
    [method |-> "search_episode", query |-> info.query,
     season |-> info.season_number, episode |-> info.episode_number, limit |-> limit]

Returned(calls, res) == [calls |-> calls, results |-> res, error |-> ""]
Propagated(calls, exception) == [calls |-> calls, results |-> <<>>, error |-> exception]

\* rename_common.py: BaseRenamer._perform_search, after the calls made so far;
\* renamer.py calls self._media_client.search in the same way
BaseRenamer_perform_search(client, info, limit, calls) ==
    CASE client.search_outcome = "results" ->
             Returned(Append(calls, SearchCall(info, limit)), PlainResults)
      [] client.search_outcome = "empty" ->
             Returned(Append(calls, SearchCall(info, limit)), <<>>)
      [] OTHER ->
             Propagated(Append(calls, SearchCall(info, limit)), client.search_outcome)

\* mutation of UsesEpisodeSearch: the numbers are not looked at
UsesEpisodeSearch_unchecked(client, info) == client.search_episode = "callable"

\* `if season is not None and episode is not None:` and
\* `search_episode = getattr(client, "search_episode", None)`,
\* `if callable(search_episode):`
UsesEpisodeSearch(client, info) ==
    /\ info.season_number # None
    /\ info.episode_number # None
    /\ client.search_episode = "callable"

\* `try: results = search_episode(...) except Exception ... else: if results:
\* return results`, and the plain search after it
TVRenamer_search_episode(client, info, limit) ==
    CASE client.episode_outcome = "results" ->
             Returned(<<SearchEpisodeCall(info, limit)>>, EpisodeResults)
      [] client.episode_outcome = "KeyboardInterrupt" ->
             Propagated(<<SearchEpisodeCall(info, limit)>>, "KeyboardInterrupt")
      [] OTHER ->
             BaseRenamer_perform_search(client, info, limit,
                                        <<SearchEpisodeCall(info, limit)>>)

\* tv_renamer.py: TVRenamer._perform_search
TVRenamer_perform_search(client, info, limit) ==
    IF UsesEpisodeSearch(client, info)
    THEN TVRenamer_search_episode(client, info, limit)
    ELSE BaseRenamer_perform_search(client, info, limit, <<>>)

\* the search step of the orchestrator class im in mode m
perform_search(im, m, client, info, limit) ==
    IF im = "common" /\ m = "tv"
    THEN TVRenamer_perform_search(client, info, limit)
    ELSE BaseRenamer_perform_search(client, info, limit, <<>>)

SearchStepCalls ==
    [kind : {"search"}, client : Clients, info : SearchInfos, limit : SearchLimits]

SearchInit ==
    /\ args \in SearchStepCalls
    /\ \E r \in Renamers :
          /\ r.impl \in {"renamer", "common"}
          /\ impl = r.impl
          /\ mode = r.mode
          /\ format_key = r.format_key
          /\ imdb_client_set = r.imdb_client_set
    /\ disk = {}
    /\ disk_before = disk
    /\ candidate = NoCandidate
    /\ Fresh

Performed(outcome) ==
    /\ steps' = outcome.calls
    /\ results' = outcome.results
    /\ error' = outcome.error
    /\ pc' = IF outcome.error = "" THEN pc ELSE "raised"
    /\ probe' = [NoProbe EXCEPT !.done = TRUE]
    /\ UNCHANGED <<config, call, disk, idx, search_info, retries, candidate, target,
                   selected, stop_requested, console, fs_calls, history, args>>

\* results = self._perform_search(search_info, search_limit)
PerformSearch ==
    /\ args.kind = "search"
    /\ ~probe.done
    /\ Performed(perform_search(impl, mode, args.client, args.info, args.limit))

SpecSearch == SearchInit /\ [][PerformSearch]_vars

----------------------------------------------------------------------------
(* Properties of process_directory, stated for Spec.                        *)

\* C1: a call of process_directory with dry_run = TRUE never calls
\* Path.rename, and the set of paths of the directory stays what it was
\* before the call, for every directory, chooser input, format and collision
C1_DryRunNeverRenames ==
    (dry_run /\ pc # "idle") => (fs_calls = <<>> /\ disk = disk_before)

\* a dry run that reported a collision ("already exists, would use ...") and
\* returned
C1_Witness ==
    /\ dry_run
    /\ pc = "returned"
    /\ \E i \in DOMAIN console : console[i].kind = "note_exists"

\* the paths of the candidates of a sequence of events
Candidates(events) == [i \in DOMAIN events |-> events[i].candidate]

\* the chooser selected a match for the file of event h
Accepted(h) == h.answer = "select"

\* the candidate of event h renders the name the file already has
OwnName(h) == proposed_path(impl, h.candidate) = h.file

\* C4: in the console orchestrators a file whose selected candidate's
\* proposed path equals the file's current path is reported as already
\* matching, is never renamed and is never reported as a rename
C4_AlreadyMatchingNeverRenamed ==
    \A i \in DOMAIN history :
        (impl \in {"renamer", "common"} /\ Accepted(history[i]) /\ OwnName(history[i]))
        => /\ \E j \in DOMAIN console :
                 console[j] = Line("already_matches", history[i].file, "")
           /\ \A j \in DOMAIN fs_calls : fs_calls[j].source # history[i].file
           /\ \A j \in DOMAIN console :
                 console[j].kind = "renaming" => console[j].file # history[i].file

\* C5: when Path.rename fails with an OSError in execute mode, the failure is
\* reported and the call goes on with the next file: no exception leaves
\* process_directory
C5_RenameFailureIsolated ==
    \A i \in DOMAIN fs_calls :
        ~fs_calls[i].ok
        => /\ ~(pc = "raised" /\ error = "OSError")
           /\ \E j \in DOMAIN console :
                 console[j] = Line("failed", fs_calls[i].source, fs_calls[i].target)

\* the file of event h is neither in the result list nor the source of a rename
Untouched(h) ==
    /\ \A j \in DOMAIN selected : selected[j].original_path # h.file
    /\ \A j \in DOMAIN fs_calls : fs_calls[j].source # h.file

InDiscoveryOrder(cands) ==
    \A i, j \in DOMAIN cands :
        i < j => Less(cands[i].original_path, cands[j].original_path)

Kept(h) == Accepted(h) /\ ~(impl = "common" /\ OwnName(h))

----------------------------------------------------------------------------
(* Properties of _determine_target_path, stated for SpecTarget.             *)

\* path is "<stem> (n)<ext>" of proposed for the smallest n >= 1 that is free
SmallestFree(path, proposed, files) ==
    \E n \in 1..(Cardinality(files) + 1) :
        /\ path = Alternative(proposed, n)
        /\ Alternative(proposed, n) \notin files
        /\ \A m \in 1..(n - 1) : Alternative(proposed, m) \in files

\* C2 as stated: a proposed path that does not exist is returned unadjusted;
\* one that exists gives "<stem> (n)<ext>" for the smallest free n >= 1,
\* adjusted
C2_ResolveTarget ==
    probe.done
    => IF probe.name \notin disk
       THEN probe.path = probe.name /\ ~probe.adjusted
       ELSE probe.adjusted /\ SmallestFree(probe.path, probe.name, disk)

\* the early return of BaseRenamer: the proposed path is the candidate's own
OwnPathCase == impl = "common" /\ probe.name = candidate.original_path

\* C2 (amended): a proposed path that does not exist is returned unadjusted;
\* one that exists gives "<stem> (n)<ext>" for the smallest free n >= 1,
\* adjusted, unless it is the own original path of a BaseRenamer candidate,
\* which is returned unadjusted
C2_ResolveTarget_Amended ==
    probe.done
    => IF probe.name \notin disk \/ OwnPathCase
       THEN probe.path = probe.name /\ ~probe.adjusted
       ELSE probe.adjusted /\ SmallestFree(probe.path, probe.name, disk)

\* the probing went past an existing "(1)" to "(2)"
C2_Witness ==
    /\ probe.done
    /\ probe.adjusted
    /\ probe.name = "The Matrix.mkv"
    /\ probe.path = "The Matrix (2).mkv"

\* C3: for a candidate whose proposed path equals its original path the
\* planner returns that path unadjusted, never a "(1)" alternative
C3_OwnPathUnadjusted ==
    (probe.done /\ probe.name = candidate.original_path)
    => (probe.path = candidate.original_path /\ ~probe.adjusted)

----------------------------------------------------------------------------
(* Properties of proposed_filename, stated for SpecName.                   *)

BothNumbers == candidate.season_number # None /\ candidate.episode_number # None

TheMarker == Marker(candidate.season_number, candidate.episode_number)

\* build_name of the candidate's format on its context
Rendered == build_name(candidate.format_key, Context(candidate))

\* C8: with season and episode both present, proposed_filename of either
\* candidate class contains S<season:02>E<episode:02>, appended after one
\* space before the extension when the rendered name lacks it
C8_MarkerAlwaysPresent ==
    (probe.done /\ BothNumbers)
    => /\ Contains(probe.name, TheMarker)
       /\ ~Contains(Rendered, TheMarker)
          => probe.name = Rendered \o " " \o TheMarker
                              \o PathSuffix(candidate.original_path)

\* C9: with show_episode the name MovieCandidate proposes is exactly
\* "<show> - <episode title><ext>" and with show_only exactly "<show><ext>",
\* with no marker, also when season and episode numbers are present
C9_FormatRespected ==
    (probe.done /\ impl = "renamer" /\ candidate.metadata.episode_title # "")
    => /\ candidate.format_key = "show_episode"
          => probe.name = sanitize_title(candidate.metadata.title) \o " - "
                              \o sanitize_title(candidate.metadata.episode_title)
                              \o PathSuffix(candidate.original_path)
       /\ candidate.format_key = "show_only"
          => probe.name = sanitize_title(candidate.metadata.title)
                              \o PathSuffix(candidate.original_path)

NumberFormats == {"show_numbers", "show_episode_numbers"}

\* C10 as stated: for show_numbers and show_episode_numbers, both numbers
\* present and a title and an episode title that do not contain the marker,
\* the marker occurs exactly once in proposed_filename
C10_MarkerOnce ==
    (probe.done /\ candidate.format_key \in NumberFormats
        /\ BothNumbers
        /\ ~Contains(candidate.metadata.title, TheMarker)
        /\ ~Contains(candidate.metadata.episode_title, TheMarker))
    => Occurrences(probe.name, TheMarker) = 1

\* C10 (amended): the same for a title and an episode title that do not
\* contain the marker once sanitized
C10_MarkerOnce_Amended ==
    (probe.done /\ candidate.format_key \in NumberFormats
        /\ BothNumbers
        /\ ~Contains(sanitize_title(candidate.metadata.title), TheMarker)
        /\ ~Contains(sanitize_title(candidate.metadata.episode_title), TheMarker))
    => Occurrences(probe.name, TheMarker) = 1

\* show_numbers with "The Expanse", season 2, episode 3
C10_Witness ==
    /\ probe.done
    /\ impl = "renamer"
    /\ candidate.format_key = "show_numbers"
    /\ candidate.metadata.title = "The Expanse"
    /\ candidate.season_number = 2
    /\ candidate.episode_number = 3
    /\ probe.name = "The Expanse - S02E03.mkv"

----------------------------------------------------------------------------
(* Properties of the constructors, stated for SpecFormat.                  *)

\* the constructor was called with a mode that exists
ConstructedIn(m) ==
    args.kind = "construct" /\ probe.done /\ Lower(args.media_mode) = m

\* the format registered under key lists mode m
ListsMode(key, m) ==
    \/ m = "movie" /\ key \in {"movie_title", "movie_title_year"}
    \/ m = "tv" /\ key \in {"show_episode_numbers", "show_numbers", "show_episode",
                            "show_only"}

Registered(key) == ListsMode(key, "movie") \/ ListsMode(key, "tv")

\* C11 as stated: resolving a key for a mode gives the format registered
\* under the key when it lists the mode, the unknown-format error when no
\* format is registered under the key and the mode-mismatch error when the
\* registered format does not list the mode; no renamer is constructed with
\* a format that does not list its mode
C11_Resolve ==
    \A m \in {"movie", "tv"} :
        ConstructedIn(m)
        => /\ error = "" => ListsMode(format_key, mode)
           /\ args.rename_format # NoFormat
              => /\ ListsMode(args.rename_format, m)
                    => (error = "" /\ mode = m /\ format_key = args.rename_format)
                 /\ ~Registered(args.rename_format) => error = "unknown_format"
                 /\ (Registered(args.rename_format) /\ ~ListsMode(args.rename_format, m))
                    => error = "mode_mismatch"

\* the error for a key registered for the other mode only: the registry of a
\* BaseRenamer subclass holds the formats of its own mode and nothing else
OtherModeError == IF impl = "common" THEN "unknown_format" ELSE "mode_mismatch"

\* C11 (amended): as C11, except that a BaseRenamer subclass fails with the
\* unknown-format error for a key that is registered for the other mode
C11_Resolve_Amended ==
    \A m \in {"movie", "tv"} :
        ConstructedIn(m)
        => /\ error = "" => ListsMode(format_key, mode)
           /\ args.rename_format # NoFormat
              => /\ ListsMode(args.rename_format, m)
                    => (error = "" /\ mode = m /\ format_key = args.rename_format)
                 /\ ~Registered(args.rename_format) => error = "unknown_format"
                 /\ (Registered(args.rename_format) /\ ~ListsMode(args.rename_format, m))
                    => error = OtherModeError

\* MovieRenamer(client, rename_format="movie_title", media_mode="TV") raised
\* the mode-mismatch error
C11_Witness ==
    /\ ConstructedIn("tv")
    /\ impl = "renamer"
    /\ args.media_mode = "TV"
    /\ args.rename_format = "movie_title"
    /\ pc = "raised"
    /\ error = "mode_mismatch"

\* the candidate carries season s and episode e
Numbered(s, e) == candidate.season_number = s /\ candidate.episode_number = e

\* C12: constructed with no rename format, a movie-mode renamer uses
\* movie_title and a tv-mode renamer show_episode_numbers: "The Matrix" (1999)
\* is proposed as "The Matrix<ext>" and "The Expanse", "Static", season 2,
\* episode 3 as "The Expanse - Static - S02E03<ext>"
C12_DefaultFormat ==
    \A m \in {"movie", "tv"} :
        (ConstructedIn(m) /\ args.rename_format = NoFormat)
        => /\ error = ""
           /\ mode = m
           /\ format_key = (IF m = "tv" THEN "show_episode_numbers" ELSE "movie_title")
           /\ (m = "movie" /\ candidate.metadata = TheMatrix /\ Numbered(None, None))
              => probe.name = "The Matrix" \o PathSuffix(candidate.original_path)
           /\ (m = "tv" /\ candidate.metadata = TheExpanse /\ Numbered(2, 3))
              => probe.name = "The Expanse - Static - S02E03"
                                  \o PathSuffix(candidate.original_path)

\* a TVRenamer constructed with no format proposed the name of the episode
C12_Witness ==
    /\ ConstructedIn("tv")
    /\ args.rename_format = NoFormat
    /\ impl = "common"
    /\ candidate.original_path = "The.Expanse.S02E03.1080p.MKV"
    /\ candidate.metadata = TheExpanse
    /\ probe.name = "The Expanse - Static - S02E03.MKV"

----------------------------------------------------------------------------
(* Properties of _prepare_search, stated for SpecParse.                    *)

\* _prepare_search was applied to the name
Parsed == args.kind = "parse" /\ probe.done

\* a part of the name as it reads in a query: the dots are spaces
InQuery(text) == Replace(text, ".", " ")

\* the whitespace-separated tokens of the query
QueryTokens == Split(search_info.query)

\* token is one of the tokens of the query
IsQueryToken(token) == \E i \in DOMAIN QueryTokens : QueryTokens[i] = token

\* a token of four digits that starts with 19 or 20
YearLike(token) ==
    /\ Len(token) = 4
    /\ SubSeq(token, 1, 2) \in {"19", "20"}
    /\ \A i \in 3..4 : \E d \in 0..9 : Ch(token, i) = ToStr(d)

\* C13: the patterns are tried in the order S<n>E<n>, <n>x<n>, season <n>
\* episode <n> and only the first that matches counts, also when a pattern
\* of lower priority matches earlier in the name: season and episode are the
\* numbers of that match, its span is not in the query while the span of the
\* other pattern stays, and season is absent exactly when episode is
C13_FirstPatternOnly ==
    Parsed
    => /\ search_info.season_number = args.marker.season
       /\ search_info.episode_number = args.marker.episode
       /\ (search_info.season_number = None) <=> (search_info.episode_number = None)
       /\ args.marker.p # 0 => ~Contains(search_info.query, InQuery(args.marker.text))
       /\ args.decoy.p # 0 => Contains(search_info.query, InQuery(args.decoy.text))
       /\ StartsWith(search_info.query, InQuery(args.title))

\* "Doctor.Who.4x05.S02E03.mkv": the S<n>E<n> marker counted although the
\* <n>x<n> marker stands before it
C13_Witness ==
    /\ Parsed
    /\ args.name = "Doctor.Who.4x05.S02E03.mkv"
    /\ search_info = [query |-> "Doctor Who 4x05", season_number |-> 2, episode_number |-> 3]

\* C14: the tokens of four digits that look like a year (19xx, 20xx) are
\* removed from the query exactly when a season/episode marker was found:
\* without a marker the token stays, with a marker no such token is left,
\* wherever it stood; a token of four digits that is no year stays
C14_YearOnlyWithMarkers ==
    (Parsed /\ args.number # "")
    => /\ (args.marker.p = 0 \/ ~YearLike(args.number)) => IsQueryToken(args.number)
       /\ args.marker.p # 0
          => \A i \in DOMAIN QueryTokens : ~YearLike(QueryTokens[i])
       /\ StartsWith(search_info.query, InQuery(args.title))

\* "Doctor.Who.S02E03.2005.mkv": the year after the marker was removed
C14_Witness ==
    /\ Parsed
    /\ args.name = "Doctor.Who.S02E03.2005.mkv"
    /\ search_info = [query |-> "Doctor Who", season_number |-> 2, episode_number |-> 3]

\* C20: a name that ends with the audio tag ddp5.1 is parsed to a query
\* without the tag: "Some.Show.ddp5.1" gives "Some Show"
C20_DottedAudioTagStripped ==
    (Parsed /\ args.tail = ".ddp5.1")
    => /\ ~Contains(search_info.query, "ddp")
       /\ args.name = "Some.Show.ddp5.1.mkv" => search_info.query = "Some Show"

\* the last token of the query, "" when the query has none
LastQueryToken == IF QueryTokens = <<>> THEN "" ELSE QueryTokens[Len(QueryTokens)]

\* C21: a name that ends with the token ddp5, "ddp" and digits with no dot
\* and digit after them, is parsed to a query that keeps the token
C21_BareDdpKept ==
    (Parsed /\ args.tail = ".ddp5") => LastQueryToken = "ddp5"

\* a resolution tag (three or four digits and p) or a word of the release
\* vocabulary, whatever its case and with or without hyphens
ReleaseMetadataToken(token) ==
    \/ Replace(Lower(token), "-", "") \in RELEASE_METADATA_TOKENS
    \/ /\ Len(token) \in {4, 5}
       /\ Lower(Ch(token, Len(token))) = "p"
       /\ \A i \in 1..(Len(token) - 1) : \E d \in 0..9 : Ch(token, i) = ToStr(d)

\* C30: the query never ends with a release-metadata token, also for names
\* with a season/episode marker and a year after the release tag
C30_NoTrailingReleaseToken ==
    Parsed => ~ReleaseMetadataToken(LastQueryToken)

----------------------------------------------------------------------------
(* Properties of _strip_trailing_release_tokens, stated for SpecStrip.     *)

\* the first n tokens are empty or end in a token that is no release token
EndsInTitle(tokens, n) == n = 0 \/ ~tokens[n].release

\* the length of the longest such prefix
KeptLength(tokens) ==
    CHOOSE n \in 0..Len(tokens) :
        /\ EndsInTitle(tokens, n)
        /\ \A k \in (n + 1)..Len(tokens) : ~EndsInTitle(tokens, k)

\* C19: the release tokens are removed from the end one at a time and the
\* first trailing token that is no release token stops it: the result is
\* the longest prefix of the tokens that is empty or ends in a token that is
\* no release token, so a release token with such a token after it is kept
C19_StopsAtFirstNonRelease ==
    (args.kind = "strip" /\ probe.done)
    => /\ probe.name = Join(Texts(args.tokens, KeptLength(args.tokens)))
       /\ \A i, j \in DOMAIN args.tokens :
              (i < j /\ args.tokens[i].release /\ ~args.tokens[j].release)
              => (Len(Split(probe.name)) >= j
                     /\ Split(probe.name)[i] = args.tokens[i].text)

\* "720p Show x264" was stripped to "720p Show": the release token before
\* "Show" stayed
C19_Witness ==
    /\ args.kind = "strip"
    /\ probe.done
    /\ args.value = "720p Show x264"
    /\ probe.name = "720p Show"

----------------------------------------------------------------------------
(* Properties of TVRenamer._perform_search, stated for SpecSearch.         *)

\* the search step of a TVRenamer was taken
SearchedTV == args.kind = "search" /\ probe.done /\ impl = "common" /\ mode = "tv"

\* season and episode are both present and the client offers search_episode
EpisodeSearchOffered ==
    /\ args.info.season_number # None
    /\ args.info.episode_number # None
    /\ args.client.search_episode = "callable"

\* the plain search was called with the query and the limit, its result is
\* the result of the step and its failure the failure of the step
PlainSearchUsed(made) ==
    /\ made = [method |-> "search", query |-> args.info.query, season |-> None,
               episode |-> None, limit |-> args.limit]
    /\ args.client.search_outcome = "results"
          => (error = "" /\ results = PlainResults)
    /\ args.client.search_outcome = "empty" => (error = "" /\ results = <<>>)

\* C15: a TVRenamer calls search_episode(query, season, episode, limit)
\* first when season and episode are both present and the client offers it,
\* and uses its result when it is not empty; when the client does not offer
\* it, when it raises an error or when it returns nothing, search(query,
\* limit) is called and its result used, and the error of search_episode
\* does not leave the step; when season or episode is absent search_episode
\* is not called
C15_EpisodeSearchPreferred ==
    SearchedTV
    => /\ ~EpisodeSearchOffered
          => (Len(steps) = 1 /\ PlainSearchUsed(steps[1]))
       /\ EpisodeSearchOffered
          => /\ steps[1] = [method |-> "search_episode", query |-> args.info.query,
                            season |-> args.info.season_number,
                            episode |-> args.info.episode_number,
                            limit |-> args.limit]
             /\ args.client.episode_outcome = "results"
                   => (Len(steps) = 1 /\ error = "" /\ results = EpisodeResults)
             /\ args.client.episode_outcome \in {"empty", "Exception"}
                   => (Len(steps) = 2 /\ PlainSearchUsed(steps[2]))

\* search_episode raised and the result of the plain search was used
C15_Witness ==
    /\ SearchedTV
    /\ EpisodeSearchOffered
    /\ args.client.episode_outcome = "Exception"
    /\ Len(steps) = 2
    /\ steps[2].method = "search"
    /\ error = ""
    /\ results = PlainResults

----------------------------------------------------------------------------
(* Properties of discovery, stated for SpecDiscover.                       *)

\* the path names an entry of the directory itself, not of a subdirectory
ImmediateChild(path) == \A i \in 1..Len(path) : SubSeq(path, i, i) # "/"

\* the name ends, whatever the case of its letters, with one of the three
\* extensions after a non-empty stem
SupportedName(name) ==
    \E ext \in {".mp4", ".mkv", ".avi"} :
        Len(name) > Len(ext) /\ EndsWith(Lower(name), ext)

\* the entries of the tree that discovery is to return
Expected(tree) ==
    {e.path : e \in {x \in tree : /\ ImmediateChild(x.path)
                                  /\ x.kind \in {"file", "link_to_file"}
                                  /\ SupportedName(x.path)}}

\* C16: every run of discovery returns exactly the immediate children of the
\* directory that are regular files with a suffix that is .mp4, .mkv or .avi
\* when case is ignored, nothing from a subdirectory, in ascending order of
\* path; so all runs over one directory return the same list
C16_Discovery ==
    args.kind = "discover"
    => \A r \in 1..Len(history) :
          /\ {history[r][i] : i \in 1..Len(history[r])} = Expected(args.tree)
          /\ \A i \in 1..Len(history[r]), j \in 1..Len(history[r]) :
                i < j => Less(history[r][i], history[r][j])
          /\ history[r] = history[1]

\* two runs over a directory with a subdirectory that holds a media file, a
\* file with an upper-case suffix and one with a lower-case suffix
C16_Witness ==
    /\ args.kind = "discover"
    /\ Len(history) = 2
    /\ args.tree = {[path |-> "Extras", kind |-> "directory"],
                    [path |-> "Extras/Bonus.mkv", kind |-> "file"],
                    [path |-> "A.MP4", kind |-> "file"]}
    /\ history[2] = <<"A.MP4">>

----------------------------------------------------------------------------
(* The directory and the extension of a rename target, stated for          *)
(* SpecTarget.  A path of the model is a name in the directory that is     *)
(* processed: it has that directory as its parent when it is one path      *)
(* component, that is when it holds no "/".                                *)

\* C17: proposed_path and the path _determine_target_path returns are in the
\* directory of original_path and end with the suffix of original_path as
\* it is spelt, also when a " (n)" was inserted
C17_KeepsDirectoryAndExtension ==
    (args = NoArgs /\ probe.done)
    => /\ ~Contains(probe.name, "/")
       /\ ~Contains(probe.path, "/")
       /\ EndsWith(probe.name, PathSuffix(candidate.original_path))
       /\ EndsWith(probe.path, PathSuffix(candidate.original_path))

----------------------------------------------------------------------------
(* The order of the steps of process_directory, stated for Spec and the    *)
(* console orchestrators.                                                  *)

PipelineOrder == <<"parse", "search", "choose", "plan", "execute">>

\* the position of a file in the listing of the call
PositionOf(file) == CHOOSE i \in DOMAIN movie_files : movie_files[i] = file

\* the kinds of the steps taken on a file, in the order they were taken
StepsOn(file) == SelectSeq(steps, LAMBDA s : s.file = file)
KindsOn(file) == [i \in DOMAIN StepsOn(file) |-> StepsOn(file)[i].kind]

\* what the collaborators answered for a file: the events of the file
AnswersOn(file) == {history[i].answer : i \in {j \in DOMAIN history : history[j].file = file}}

\* the file reached the end of the loop body
Finished(file) ==
    /\ AnswersOn(file) # {}
    /\ "none" \in AnswersOn(file) => KindsOn(file) = <<"parse", "search">>
    /\ "skip" \in AnswersOn(file) => KindsOn(file) = <<"parse", "search", "choose">>
    /\ (Len(KindsOn(file)) >= 4 /\ ~dry_run) => KindsOn(file) = PipelineOrder

----------------------------------------------------------------------------
(* Properties of the formats with numbers, stated for SpecName.            *)

\* the proposed name without the extension of the original file
ProposedStem ==
    SubSeq(probe.name, 1, Len(probe.name) - Len(PathSuffix(candidate.original_path)))

\* the part of the name that the titles give: the show, and for
\* show_episode_numbers the episode title after " - " when there is one
TitlePart ==
    sanitize_title(candidate.metadata.title)
        \o (IF candidate.format_key = "show_episode_numbers"
                 /\ candidate.metadata.episode_title # ""
            THEN " - " \o sanitize_title(candidate.metadata.episode_title)
            ELSE "")

\* the number of the model written with two digits at least
TwoDigits(n) == CHOOSE t \in {"02", "03", "12", "123"} : ToInt(t) = n

\* C22: show_numbers and show_episode_numbers render season and episode as
\* S<season>E<episode>, each number with two digits at least, after the
\* titles; when the season or the episode is missing the name is the titles
\* alone, with no part of a marker
C22_TwoDigitMarkerOrNone ==
    (args = NoArgs /\ probe.done /\ candidate.format_key \in NumberFormats)
    => IF BothNumbers
       THEN ProposedStem = TitlePart \o " - S" \o TwoDigits(candidate.season_number)
                               \o "E" \o TwoDigits(candidate.episode_number)
       ELSE ProposedStem = TitlePart

\* show_episode_numbers with season 2 and episode 3 of "The Expanse"
C22_Witness ==
    /\ args = NoArgs
    /\ probe.done
    /\ candidate.format_key = "show_episode_numbers"
    /\ candidate.season_number = 2
    /\ candidate.episode_number = 3
    /\ probe.name = "The Expanse - Static - S02E03.mkv"

----------------------------------------------------------------------------
(* Properties of build_name, stated for SpecBuild.                         *)

NameBuilt == args.kind = "build" /\ probe.done

\* the output of the builder of the format on the context of the call
BuilderOutput == builder(format_key, args.context)

\* no space at either end, no two spaces in a row, no other whitespace
TidySpaces(name) ==
    /\ name # "" => (SubSeq(name, 1, 1) # " " /\ SubSeq(name, Len(name), Len(name)) # " ")
    /\ ~Contains(name, "  ")
    /\ ~Contains(name, "\t")

\* C23: for every format build_name returns the output of the builder with
\* each run of whitespace turned into one space and none at the ends, and
\* the title of the context when nothing is left; so with a title that is
\* sanitized and not empty the name is not empty and has tidy spaces
C23_UniformPostProcessing ==
    NameBuilt
    => /\ Split(BuilderOutput) # <<>>
          => (TidySpaces(probe.name) /\ Split(probe.name) = Split(BuilderOutput))
       /\ Split(BuilderOutput) = <<>> => probe.name = args.context.series_title
       /\ (args.context.series_title # ""
             /\ args.context.series_title = sanitize_title(args.context.series_title))
          => (probe.name # "" /\ TidySpaces(probe.name))

\* movie_title_year on a title and a year with runs of spaces
C23_Witness ==
    /\ NameBuilt
    /\ format_key = "movie_title_year"
    /\ args.context.series_title = "The  Expanse "
    /\ args.context.year = "20  15"
    /\ probe.name = "The Expanse (20 15)"

----------------------------------------------------------------------------
(* Properties of IMDBClient._request, stated for SpecRequest.              *)

Requesting == args.kind = "request" /\ pc # "idle"

\* the GETs and the sleeps of the call, in the order they were made
Gets == SelectSeq(steps, LAMBDA e : e.kind = "get")
Sleeps == SelectSeq(steps, LAMBDA e : e.kind = "sleep")

\* the most attempts the call may make
AttemptLimit == IF args.max_retries >= 1 THEN args.max_retries ELSE 1

\* C29: a call of _request makes at least one and at most max(1,
\* max_retries) GETs; it returns at the first GET that succeeds; every GET
\* but the last ended with a request exception; when it raises, the
\* exception is that of the last GET and nothing is returned; it is over
\* once the limit is reached; and the sleep after the k-th failed GET lasts
\* backoff_factor * 2^(k-1)
C29_BoundedRetries ==
    Requesting
    => /\ Len(Gets) <= AttemptLimit
       /\ \A k \in DOMAIN Gets : Gets[k].attempt = k
       /\ Len(Gets) = retries + (IF pc \in {"returned", "raised"} /\ retries < Len(Gets)
                                 THEN 1 ELSE 0)
       /\ pc # "get" => Len(Gets) >= 1
       /\ Len(Gets) = AttemptLimit => pc # "get"
       /\ pc = "returned"
          => (Len(results) = 1 /\ results[1].attempt = Len(Gets) /\ error = "")
       /\ pc = "raised" => (results = <<>> /\ error.attempt = Len(Gets))
       /\ pc = "get" => (results = <<>> /\ error = "")
       /\ args.backoff_factor >= 0
          => \A i \in DOMAIN steps :
                /\ (steps[i].kind = "get" /\ i < Len(steps)
                       /\ args.backoff_factor > 0)
                   => (steps[i + 1].kind = "sleep"
                         /\ steps[i + 1].delay
                                = args.backoff_factor * (2 ^ (steps[i].attempt - 1)))
                /\ steps[i].kind = "sleep"
                   => (i > 1 /\ steps[i - 1].kind = "get"
                         /\ steps[i].attempt = steps[i - 1].attempt)
       /\ args.backoff_factor <= 0 => Sleeps = <<>>

\* max_retries 3 and backoff factor 3: two GETs failed, the sleeps lasted 3
\* and 6, the third GET returned the payload
C29_Witness ==
    /\ Requesting
    /\ args.max_retries = 3
    /\ args.backoff_factor = 3
    /\ pc = "returned"
    /\ Len(Gets) = 3
    /\ Len(Sleeps) = 2
    /\ Sleeps[1].delay = 3
    /\ Sleeps[2].delay = 6

----------------------------------------------------------------------------
(* Properties of _extract_episode_from_collection, stated for SpecExtract. *)

Extracted == args.kind = "extract" /\ pc = "returned"

\* the positions of the collection that hold a dict
DictPositions(episodes) == {i \in DOMAIN episodes : episodes[i].dict}

\* the entry's episodeNumber is the number n, as a number or as its numeral
NumberIs(entry, n) ==
    \/ entry.episodeNumber.type = "int" /\ entry.episodeNumber.v = n
    \/ entry.episodeNumber.type = "str" /\ entry.episodeNumber.text = ToStr(n)

MatchingPositions(episodes, n) == {i \in DictPositions(episodes) : NumberIs(episodes[i], n)}

Lowest(positions) == CHOOSE i \in positions : \A j \in positions : i <= j

\* C25: the result is the first dict entry whose episodeNumber is the
\* requested number if the collection has one anywhere; otherwise the first
\* dict entry; and nothing only when the collection has no dict entry
C25_MatchOrFirst ==
    Extracted
    => IF MatchingPositions(args.episodes, args.episode_number) # {}
       THEN results = <<args.episodes[Lowest(MatchingPositions(args.episodes,
                                                              args.episode_number))]>>
       ELSE IF DictPositions(args.episodes) # {}
       THEN results = <<args.episodes[Lowest(DictPositions(args.episodes))]>>
       ELSE results = <<>>

\* a value that is no dict, then two dicts that do not match: the first of
\* the two dicts is returned, not the last
C25_Witness ==
    /\ Extracted
    /\ args.episode_number = 3
    /\ Len(args.episodes) = 3
    /\ ~args.episodes[1].dict
    /\ args.episodes[2] = [dict |-> TRUE, id |-> "tt200", title |-> "Static",
                           episodeNumber |-> JsonInt(2)]
    /\ args.episodes[3] = [dict |-> TRUE, id |-> "tt201", title |-> "Static",
                           episodeNumber |-> JsonStr("x")]
    /\ results = <<args.episodes[2]>>

\* the match stands last, behind a dict that does not match
C25_WitnessMatch ==
    /\ Extracted
    /\ args.episode_number = 3
    /\ Len(args.episodes) = 2
    /\ args.episodes[1].dict
    /\ args.episodes[2].dict
    /\ args.episodes[1].episodeNumber = JsonInt(2)
    /\ results = <<args.episodes[2]>>
    /\ args.episodes[1].id # args.episodes[2].id

----------------------------------------------------------------------------
(* Properties of IMDBClient.search_episode, stated for SpecEpisode.        *)

EpisodeRequests == SelectSeq(steps, LAMBDA e : e.kind = "episodes")

\* C24: search_episode never holds more than `limit` results, and every
\* episode request was made while fewer than `limit` results were collected
C24_LimitRespected ==
    args.kind = "episode"
    => /\ Len(results) <= args.limit
       /\ \A k \in DOMAIN EpisodeRequests : EpisodeRequests[k].collected < args.limit

\* limit 1, two series with an id: the first series gave a result, the call
\* returned and the second series was never asked about
C24_Witness ==
    /\ args.kind = "episode"
    /\ args.limit = 1
    /\ args.candidates = <<SeriesA, SeriesB>>
    /\ pc = "returned"
    /\ Len(results) = 1
    /\ Len(EpisodeRequests) = 1
    /\ EpisodeRequests[1].id = "tt400"

----------------------------------------------------------------------------
(* Properties of _invoke_episode_lookup, stated for SpecLookup.            *)

LookupOver == args.kind = "lookup" /\ pc \in {"returned", "raised"}

RequiresSeasonType == args.func \in {SeasonTypePositional, SeasonTypeKeyword}

\* the call passed "official" between the series id and the season number
OfficialPositional(sig) == Len(sig.args) = 4 /\ sig.args[2] = "official"

\* the call passed seasonType="official"
OfficialKeyword(sig) == Kw("seasonType", "official") \in sig.kwargs

\* C26: the lookup returns the result of the first call that raises no
\* TypeError, and a callable that requires a season type of "official",
\* positional or as the seasonType keyword, is invoked successfully
C26_SeasonTypeSupported ==
    LookupOver
    => /\ pc = "returned"
          => /\ Accepts(args.func, steps[Len(steps)])
             /\ \A k \in 1..(Len(steps) - 1) : ~Accepts(args.func, steps[k])
             /\ results[1].attempt = Len(steps)
       /\ RequiresSeasonType
          => /\ pc = "returned"
             /\ \E k \in DOMAIN steps : OfficialPositional(steps[k]) \/ OfficialKeyword(steps[k])

\* what the code does for the callables with plain parameters: the first
\* accepted signature answers, the ones before it were refused
C26_FirstAcceptedAnswers ==
    (LookupOver /\ pc = "returned")
    => /\ Accepts(args.func, steps[Len(steps)])
       /\ \A k \in 1..(Len(steps) - 1) : ~Accepts(args.func, steps[k])
       /\ results[1].attempt = Len(steps)

\* the callable that wants "official" as second positional argument was
\* called eight times, never with a season type, and the lookup raised
C26_SeasonTypeRefused ==
    /\ LookupOver
    /\ args.func = SeasonTypePositional
    /\ pc = "raised"
    /\ error = "TypeError"
    /\ Len(steps) = 8
    /\ \A k \in DOMAIN steps : ~OfficialPositional(steps[k]) /\ ~OfficialKeyword(steps[k])

----------------------------------------------------------------------------
(* Overwriting, stated for Spec.                                           *)

Executing == args = NoArgs /\ run > 0 /\ ~dry_run

C27_ConsoleNoOverwrite ==
    (Executing /\ impl # "gui")
    => /\ pc = "rename" => target.path \notin disk
       /\ Cardinality(disk) = Cardinality(disk_before)

\* the console orchestrators: two files of one listing were renamed, the
\* second to the name with " (1)" because the first had taken the proposed one
C27_ConsoleCollision ==
    /\ Executing
    /\ impl # "gui"
    /\ pc = "returned"
    /\ Len(fs_calls) = 2
    /\ fs_calls[1].ok
    /\ fs_calls[2].ok
    /\ fs_calls[2].target = Alternative(fs_calls[1].target, 1)

\* the GUI renamed a file onto a name that was taken: one file is gone
C27_GuiOverwrote ==
    /\ Executing
    /\ impl = "gui"
    /\ Len(fs_calls) >= 1
    /\ fs_calls[1].ok
    /\ fs_calls[1].target \in disk_before
    /\ fs_calls[1].target # fs_calls[1].source
    /\ Cardinality(disk) < Cardinality(disk_before)

----------------------------------------------------------------------------
(* The dry run as a prediction, stated for SpecPredict.                    *)

\* the real run is over and the collaborators answered as in the dry run
SameRunTwice ==
    /\ args.kind = "predict"
    /\ run = 2
    /\ pc = "returned"
    /\ history = args.answers

\* C28: for the same directory, search results and chooser inputs, the name
\* the dry run reported for a file is the name the real run renamed it to
C28_DryRunPredicts ==
    SameRunTwice
    => /\ Len(fs_calls) = Len(args.reported)
       /\ \A k \in DOMAIN fs_calls :
             /\ fs_calls[k].source = args.reported[k].file
             /\ fs_calls[k].target = args.reported[k].name

\* the dry run reported one name for two files and the real run gave the
\* second file another one
C28_Mispredicted ==
    /\ SameRunTwice
    /\ Len(fs_calls) = 2
    /\ Len(args.reported) = 2
    /\ args.reported[1].name = args.reported[2].name
    /\ fs_calls[1].target = args.reported[1].name
    /\ fs_calls[2].source = args.reported[2].file
    /\ fs_calls[2].target # args.reported[2].name

\* with one file renamed the prediction is right
C28_SingleFilePredicted ==
    (SameRunTwice /\ Len(args.reported) <= 1) => C28_DryRunPredicts

=============================================================================
